---- MODULE Spec2Model ----
(***************************************************************************)
(* Watch-status correlation and removal eligibility of PrunArr.            *)
(*                                                                         *)
(* One behaviour is one command invocation: the library (Radarr or Sonarr) *)
(* and the completed watch history (Tautulli) are fetched, then one        *)
(* operation of the engine runs on them and leaves its result.             *)
(* Python None is modelled by None (strings) and NoInt (integers).         *)
(***************************************************************************)
EXTENDS Integers, Sequences, FiniteSets, TLC

VARIABLES
    cmd,                \* what is invoked: "movies" | "series" | "check_file"
    pc,                 \* "fetch" while data arrives, "done" once an operation ran
    radarr,             \* RadarrAPI.get_movie(): sequence of raw movies
    movie_history,      \* TautulliAPI.get_movie_completed_history()
    sonarr,             \* SonarrAPI.get_series(): sequence of raw series
    episode_history,    \* TautulliAPI.get_episode_completed_history()
    op,                 \* the operation that ran and its arguments
    movies_with_status, \* result of get_movies_with_watch_status
    movies_to_remove,   \* candidate list of the movie paths
    series_with_status, \* result of get_series_with_watch_status
    items_to_remove,    \* candidate list of series/season removal
    episodes_to_remove, \* candidate list of episode removal
    file_check,         \* one application of _check_all_episodes_watched
    episode_check,      \* one pass of the episode loop over a series dict
    status_check,       \* one application of the series status determination
    watch_index,        \* the watch index the last annotation built
    tag_check,          \* one application of get_user_tags
    cache_check,        \* one application of build_series_metadata_cache
    index_check,        \* one application of the movie index loop
    fetch_check,        \* one episode evaluation with upstream fetch failures
    warmup,             \* init_cache: phase, futures and merged results
    removal,            \* remove command: display, confirmation and deletion loop
    season_delete,      \* one call of SonarrAPI.delete_season_files
    history_fetch       \* one call of TautulliAPI.get_watch_history

vars == <<cmd, pc, radarr, movie_history, sonarr, episode_history, op,
          movies_with_status, movies_to_remove, series_with_status,
          items_to_remove, episodes_to_remove, file_check, episode_check, status_check,
          watch_index, tag_check, cache_check, index_check,
          fetch_check,
          warmup,
          removal,
          season_delete,
          history_fetch>>

None == "None"
NoInt == 0 - 1

\* ------------------------------------------------------------------ bounds
MaxMovieHist == 2
MaxEpHist == 3
MaxCount == 3

\* ------------------------------------------------------------------ time
SecondsPerDay == 86400
DefaultDaysWatched == 60
Now == 100 * SecondsPerDay

\* timedelta.days of (now - datetime.fromtimestamp(ts))
DaysSince(ts) == (Now - ts) \div SecondsPerDay

DaysAgo(d) == Now - d * SecondsPerDay

\* Python truthiness of a timestamp / number (None and 0 are falsy)
TruthyInt(x) == x # NoInt /\ x # 0
\* Python truthiness of a string (None and "" are falsy)
TruthyStr(s) == s # None /\ s # ""

Range(s) == {s[i] : i \in 1..Len(s)}

\* ------------------------------------------------------------------ tags
\* RadarrAPI/SonarrAPI.get_tag: the label of a tag id; RaisingTags raise.
TagLabel(tag_id) ==
    CASE tag_id = 1 -> "1 - alice"
      [] tag_id = 2 -> "2 - bob"
      [] tag_id = 3 -> "4k"
      [] OTHER -> ""
RaisingTags == {4}

\* tag_pattern.match(label).group(1) for user_tag_regex ^\d+ - (.+)$,
\* None when the label does not match
TagPatternMatch(label) ==
    CASE label = "1 - alice" -> "alice"
      [] label = "2 - bob" -> "bob"
      [] OTHER -> None

\* outcome of a call that ends with an exception
Raised == "Raised"

RECURSIVE GetUserTagsLastMatch(_)
\* variant: the last matching tag wins
GetUserTagsLastMatch(tag_ids) ==
    IF tag_ids = <<>> THEN None
    ELSE IF GetUserTagsLastMatch(Tail(tag_ids)) # None
         THEN GetUserTagsLastMatch(Tail(tag_ids))
    ELSE IF Head(tag_ids) \in RaisingTags THEN None
    ELSE TagPatternMatch(TagLabel(Head(tag_ids)))

RECURSIVE GetUserTagsNoCatch(_)
\* variant: the exception of a tag lookup leaves the call
GetUserTagsNoCatch(tag_ids) ==
    IF tag_ids = <<>> THEN None
    ELSE IF Head(tag_ids) \in RaisingTags THEN Raised
    ELSE IF TagPatternMatch(TagLabel(Head(tag_ids))) # None
         THEN TagPatternMatch(TagLabel(Head(tag_ids)))
         ELSE GetUserTagsNoCatch(Tail(tag_ids))

RECURSIVE GetUserTags(_)
GetUserTags(tag_ids) ==
    IF tag_ids = <<>> THEN None
    ELSE IF Head(tag_ids) \in RaisingTags THEN GetUserTags(Tail(tag_ids))
    ELSE IF TagPatternMatch(TagLabel(Head(tag_ids))) # None
         THEN TagPatternMatch(TagLabel(Head(tag_ids)))
         ELSE GetUserTags(Tail(tag_ids))

RECURSIVE GetTagLookups(_)
\* the tag ids get_user_tags hands to get_tag, in call order
GetTagLookups(tag_ids) ==
    IF tag_ids = <<>> THEN <<>>
    ELSE IF Head(tag_ids) \notin RaisingTags
            /\ TagPatternMatch(TagLabel(Head(tag_ids))) # None
         THEN <<Head(tag_ids)>>
         ELSE <<Head(tag_ids)>> \o GetTagLookups(Tail(tag_ids))

\* ------------------------------------------------------------------ movies
MB == 1048576

\* TautulliAPI.get_metadata(rating_key)["guids"]
MovieGuids(rating_key) ==
    CASE rating_key = "rk1" -> <<"tmdb://11", "imdb://tt1">>
      [] rating_key = "rk2" -> <<"imdb://tt2">>
      [] OTHER -> <<>>

\* IMDB_ID_PATTERN.match(guid).group(1), None when the guid does not match
ImdbPatternMatch(guid) ==
    CASE guid = "imdb://tt1" -> "tt1"
      [] guid = "imdb://tt2" -> "tt2"
      [] OTHER -> None

RECURSIVE FirstImdb(_)
FirstImdb(guids) ==
    IF guids = <<>> THEN None
    ELSE IF ImdbPatternMatch(Head(guids)) # None THEN ImdbPatternMatch(Head(guids))
    ELSE FirstImdb(Tail(guids))

get_imdb_id_from_rating_key(rating_key) == FirstImdb(MovieGuids(rating_key))

\* rating keys for which TautulliAPI.get_metadata raises
RaisingMovieKeys == {"rk3"}

\* rating keys handed to get_imdb_id_from_rating_key while watch_lookup is built,
\* in call order: one call per record with a rating key; a raising call is not
\* caught in the loop, so it is the last one
RECURSIVE MovieMetadataLookups(_)
MovieMetadataLookups(history) ==
    IF history = <<>> THEN <<>>
    ELSE IF ~TruthyStr(Head(history).rating_key) THEN MovieMetadataLookups(Tail(history))
    ELSE IF Head(history).rating_key \in RaisingMovieKeys THEN <<Head(history).rating_key>>
    ELSE <<Head(history).rating_key>> \o MovieMetadataLookups(Tail(history))

\* the exception of a metadata lookup leaves the loop and the method
MovieLookupRaises(history) ==
    \E i \in 1..Len(history) : history[i].rating_key \in RaisingMovieKeys

\* variant: the untagged skip is never taken
KeepRadarrMovieAlways(movie_file, username, include_untagged) ==
    movie_file

\* the two skips of get_all_radarr_movies: no downloaded file, untagged when
\* untagged movies are not requested
KeepRadarrMovie(movie_file, username, include_untagged) ==
    /\ movie_file
    /\ ~(~include_untagged /\ ~TruthyStr(username))

get_all_radarr_movies(include_untagged) ==
    LET Username(movie) == IF movie.tags # <<>> THEN GetUserTags(movie.tags) ELSE None
        Keep(movie) == KeepRadarrMovie(movie.movieFile, Username(movie), include_untagged)
        kept == SelectSeq(radarr, Keep)
    IN [i \in 1..Len(kept) |->
            [id |-> kept[i].id,
             imdb_id |-> kept[i].imdbId,
             user |-> Username(kept[i]),
             file_size |-> kept[i].size]]

\* variant: the watcher's entry is overwritten by every record
MovieLookupStepLastWins(watch_lookup, record) ==
    IF ~TruthyStr(record.rating_key) THEN watch_lookup
    ELSE LET imdb_id == get_imdb_id_from_rating_key(record.rating_key)
             watched_at == record.watched_at
         IN IF ~(TruthyStr(imdb_id) /\ TruthyInt(watched_at)) THEN watch_lookup
            ELSE LET entry0 == IF imdb_id \in DOMAIN watch_lookup
                               THEN watch_lookup[imdb_id]
                               ELSE [watchers |-> <<>>, most_recent_watch |-> watched_at]
                     watchers1 == [u \in DOMAIN entry0.watchers \cup {record.user} |->
                                     IF u = record.user THEN watched_at
                                     ELSE entry0.watchers[u]]
                     recent1 == IF watched_at > entry0.most_recent_watch
                                THEN watched_at ELSE entry0.most_recent_watch
                     entry1 == [watchers |-> watchers1, most_recent_watch |-> recent1]
                 IN [k \in DOMAIN watch_lookup \cup {imdb_id} |->
                        IF k = imdb_id THEN entry1 ELSE watch_lookup[k]]

\* one iteration of the loop that builds watch_lookup
MovieLookupStep(watch_lookup, record) ==
    IF ~TruthyStr(record.rating_key) THEN watch_lookup
    ELSE LET imdb_id == get_imdb_id_from_rating_key(record.rating_key)
             user == record.user
             watched_at == record.watched_at
         IN IF ~(TruthyStr(imdb_id) /\ TruthyInt(watched_at)) THEN watch_lookup
            ELSE LET entry0 == IF imdb_id \in DOMAIN watch_lookup
                               THEN watch_lookup[imdb_id]
                               ELSE [watchers |-> <<>>, most_recent_watch |-> watched_at]
                     watchers1 ==
                         IF user \notin DOMAIN entry0.watchers
                            \/ watched_at > entry0.watchers[user]
                         THEN [u \in DOMAIN entry0.watchers \cup {user} |->
                                 IF u = user THEN watched_at ELSE entry0.watchers[u]]
                         ELSE entry0.watchers
                     recent1 == IF watched_at > entry0.most_recent_watch
                                THEN watched_at ELSE entry0.most_recent_watch
                     entry1 == [watchers |-> watchers1, most_recent_watch |-> recent1]
                 IN [k \in DOMAIN watch_lookup \cup {imdb_id} |->
                        IF k = imdb_id THEN entry1 ELSE watch_lookup[k]]

RECURSIVE BuildMovieWatchLookup(_, _)
BuildMovieWatchLookup(history, watch_lookup) ==
    IF history = <<>> THEN watch_lookup
    ELSE BuildMovieWatchLookup(Tail(history), MovieLookupStep(watch_lookup, Head(history)))

\* variant: any watcher counts as the requester
MovieWatchStatusAnyWatcher(movie_user, all_watchers) ==
    IF all_watchers = {} THEN "unwatched"
    ELSE IF TruthyStr(movie_user) THEN "watched"
    ELSE "watched"

\* variant: a watched movie without requester is reported as watched by other
MovieWatchStatusUntaggedOther(movie_user, all_watchers) ==
    IF all_watchers = {} THEN "unwatched"
    ELSE IF TruthyStr(movie_user) /\ movie_user \in all_watchers THEN "watched"
    ELSE "watched_by_other"

\* status of one movie from its requester and the set of its watchers
MovieWatchStatus(movie_user, all_watchers) ==
    IF all_watchers = {} THEN "unwatched"
    ELSE IF TruthyStr(movie_user) /\ movie_user \in all_watchers THEN "watched"
    ELSE IF TruthyStr(movie_user) /\ movie_user \notin all_watchers THEN "watched_by_other"
    ELSE "watched"

\* days_since_watched of a movie from the lookup entry's most_recent_watch
MovieDaysSinceWatched(most_recent_watch_ts) ==
    IF TruthyInt(most_recent_watch_ts) THEN DaysSince(most_recent_watch_ts) ELSE NoInt

get_movies_with_watch_status(include_untagged, username_filter) ==
    LET all_movies == get_all_radarr_movies(include_untagged)
        watch_lookup == BuildMovieWatchLookup(movie_history, <<>>)
        Keep(movie) == ~(TruthyStr(username_filter) /\ movie.user # username_filter)
        kept == SelectSeq(all_movies, Keep)
        Annotate(movie) ==
            LET known == movie.imdb_id \in DOMAIN watch_lookup
                watchers == IF known THEN watch_lookup[movie.imdb_id].watchers ELSE <<>>
                recent == IF known THEN watch_lookup[movie.imdb_id].most_recent_watch
                          ELSE NoInt
            IN [id |-> movie.id,
                imdb_id |-> movie.imdb_id,
                user |-> movie.user,
                file_size |-> movie.file_size,
                watch_status |-> MovieWatchStatus(movie.user, DOMAIN watchers),
                watched_at |-> IF TruthyInt(recent) THEN recent ELSE NoInt,
                days_since_watched |-> MovieDaysSinceWatched(recent),
                all_watchers |-> DOMAIN watchers]
    IN [i \in 1..Len(kept) |-> Annotate(kept[i])]

\* variant: strictly more than days_watched days
MovieReadyForRemovalStrict(movie, days_watched) ==
    /\ movie.watch_status = "watched"
    /\ movie.days_since_watched # NoInt
    /\ movie.days_since_watched > days_watched

\* the test of get_movies_ready_for_removal on one annotated movie
MovieReadyForRemoval(movie, days_watched) ==
    /\ movie.watch_status = "watched"
    /\ movie.days_since_watched # NoInt
    /\ movie.days_since_watched >= days_watched

get_movies_ready_for_removal(days_watched) ==
    LET Ready(movie) == MovieReadyForRemoval(movie, days_watched)
    IN SelectSeq(get_movies_with_watch_status(FALSE, None), Ready)

\* ------------------------------------------------------------------ movies remove command
\* apply_movie_filters on one movie: TRUE when the movie is kept
MoviePassesFilters(movie, watched_only, unwatched_only, watched_by_other_only, days_watched, min_filesize_bytes, remove_mode) ==
    /\ IF remove_mode
       THEN ~(\/ movie.watch_status # "watched"
              \/ movie.days_since_watched = NoInt
              \/ (days_watched # NoInt /\ movie.days_since_watched < days_watched))
       ELSE /\ (watched_only \/ unwatched_only \/ watched_by_other_only)
                  => \/ (watched_only /\ movie.watch_status = "watched")
                     \/ (unwatched_only /\ movie.watch_status = "unwatched")
                     \/ (watched_by_other_only /\ movie.watch_status = "watched_by_other")
            /\ days_watched # NoInt
                  => ~(movie.days_since_watched = NoInt
                       \/ movie.days_since_watched < days_watched)
    /\ min_filesize_bytes # NoInt => ~(movie.file_size < min_filesize_bytes)

apply_movie_filters(movies, watched_only, unwatched_only, watched_by_other_only, days_watched, min_filesize_bytes, remove_mode) ==
    LET Keep(movie) == MoviePassesFilters(movie, watched_only, unwatched_only,
                           watched_by_other_only, days_watched, min_filesize_bytes,
                           remove_mode)
    IN SelectSeq(movies, Keep)

\* get_sort_key of sort_movies
MovieSortKey(movie, sort_by) ==
    CASE sort_by = "filesize" -> movie.file_size
      [] sort_by = "days_watched" ->
            IF movie.days_since_watched # NoInt THEN movie.days_since_watched ELSE 0
      [] OTHER -> 0

RECURSIVE InsertByKey(_, _, _, _)
\* stable insertion of movie into an already sorted sequence
InsertByKey(sorted, movie, sort_by, desc) ==
    IF sorted = <<>> THEN <<movie>>
    ELSE LET before == IF desc
                       THEN MovieSortKey(Head(sorted), sort_by) >= MovieSortKey(movie, sort_by)
                       ELSE MovieSortKey(Head(sorted), sort_by) <= MovieSortKey(movie, sort_by)
         IN IF before
            THEN <<Head(sorted)>> \o InsertByKey(Tail(sorted), movie, sort_by, desc)
            ELSE <<movie>> \o sorted

RECURSIVE SortFrom(_, _, _, _)
SortFrom(movies, sorted, sort_by, desc) ==
    IF movies = <<>> THEN sorted
    ELSE SortFrom(Tail(movies), InsertByKey(sorted, Head(movies), sort_by, desc),
                  sort_by, desc)

\* sorted(movies, key=get_sort_key, reverse=desc)
sort_movies(movies, sort_by, desc) == SortFrom(movies, <<>>, sort_by, desc)

\* movies[:limit] when limit is truthy
ApplyLimit(movies, limit) ==
    IF TruthyInt(limit) /\ limit < Len(movies) THEN SubSeq(movies, 1, limit) ELSE movies

\* the candidate list remove_movies displays and deletes
remove_movies_candidates(o) ==
    LET all_movies == get_movies_with_watch_status(o.include_untagged, o.username)
        filtered == apply_movie_filters(all_movies, FALSE, FALSE, FALSE, o.days_watched,
                                        o.min_filesize_bytes, TRUE)
        sorted == sort_movies(filtered, o.sort_by, ~o.sort_desc)
    IN ApplyLimit(sorted, o.limit)

\* filter_by_days_watched(items, min_days)
filter_by_days_watched(items, min_days) ==
    IF min_days = NoInt THEN items
    ELSE LET Keep(item) == item.days_since_watched # NoInt
                           /\ item.days_since_watched >= min_days
         IN SelectSeq(items, Keep)


\* ------------------------------------------------------------------ episode keys
RECURSIVE Digits(_)
\* the characters of str(n) for an integer n >= 0
Digits(n) == IF n < 10 THEN <<ToString(n)>> ELSE Digits(n \div 10) \o <<ToString(n % 10)>>

\* f"s{season_num}e{episode_num}" as a sequence of characters
make_episode_key(season_num, episode_num) ==
    <<"s">> \o Digits(season_num) \o <<"e">> \o Digits(episode_num)

RECURSIVE SplitOn(_, _, _)
\* chars.split(sep), with current the part being read
SplitOn(chars, sep, current) ==
    IF chars = <<>> THEN <<current>>
    ELSE IF Head(chars) = sep THEN <<current>> \o SplitOn(Tail(chars), sep, <<>>)
    ELSE SplitOn(Tail(chars), sep, Append(current, Head(chars)))

IsDigit(c) == \E d \in 0..9 : ToString(d) = c
DigitValue(c) == CHOOSE d \in 0..9 : ToString(d) = c

RECURSIVE IntOf(_, _)
IntOf(chars, acc) ==
    IF chars = <<>> THEN acc ELSE IntOf(Tail(chars), 10 * acc + DigitValue(Head(chars)))

\* int(chars) succeeds (no ValueError)
IsInt(chars) == chars # <<>> /\ \A i \in 1..Len(chars) : IsDigit(chars[i])

\* season and episode number parsed from an episode key the way the counting
\* loop does: int(key.split('e')[0][1:]), int(key.split('e')[1])
ParseEpisodeKey(episode_key) ==
    LET parts == SplitOn(episode_key, "e", <<>>)
        season_chars == IF parts[1] = <<>> THEN <<>> ELSE Tail(parts[1])
        ok == Len(parts) >= 2 /\ IsInt(season_chars) /\ IsInt(parts[2])
    IN [ok |-> ok,
        season_num |-> IF ok THEN IntOf(season_chars, 0) ELSE NoInt,
        episode_num |-> IF ok THEN IntOf(parts[2], 0) ELSE NoInt]

\* ------------------------------------------------------------------ series
\* TautulliAPI.get_metadata(series_key)["guids"]
SeriesGuids(series_key) ==
    CASE series_key = "g1" -> <<"tmdb://7", "tvdb://101">>
      [] series_key = "g2" -> <<"tvdb://102">>
      [] series_key = "g4" -> <<"imdb://tt4">>
      [] OTHER -> <<>>

\* TVDB_ID_PATTERN.match(guid).group(1), None when the guid does not match
TvdbPatternMatch(guid) ==
    CASE guid = "tvdb://101" -> "101"
      [] guid = "tvdb://102" -> "102"
      [] OTHER -> None

RECURSIVE FirstTvdb(_)
FirstTvdb(guids) ==
    IF guids = <<>> THEN None
    ELSE IF TvdbPatternMatch(Head(guids)) # None THEN TvdbPatternMatch(Head(guids))
    ELSE FirstTvdb(Tail(guids))

\* series keys for which TautulliAPI.get_metadata raises
RaisingSeriesKeys == {"g3"}

\* the truthy grandparent keys collected from the records
UniqueSeriesKeys(history) ==
    {history[i].grandparent_rating_key : i \in 1..Len(history)} \ {None, ""}

\* variant: the metadata is fetched for every record that carries a key
SeriesMetadataLookupsPerRecord(history) ==
    [k \in UniqueSeriesKeys(history) |->
        Cardinality({i \in 1..Len(history) : history[i].grandparent_rating_key = k})]

\* number of get_metadata calls made per series key while the cache is built
SeriesMetadataLookups(history) ==
    [k \in UniqueSeriesKeys(history) |-> 1]

\* variant: one failing lookup discards the whole cache
build_series_metadata_cacheAllOrNothing(history) ==
    LET unique_series_keys == UniqueSeriesKeys(history)
        resolved == {k \in unique_series_keys : TruthyStr(FirstTvdb(SeriesGuids(k)))}
    IN IF unique_series_keys \cap RaisingSeriesKeys # {} THEN <<>>
       ELSE [k \in resolved |-> FirstTvdb(SeriesGuids(k))]

\* grandparent_rating_key -> tvdb_id for the distinct keys of the history; a key
\* whose lookup raises is skipped by the except clause
build_series_metadata_cache(history) ==
    LET unique_series_keys == UniqueSeriesKeys(history)
        resolved == {k \in unique_series_keys \ RaisingSeriesKeys :
                        TruthyStr(FirstTvdb(SeriesGuids(k)))}
    IN [k \in resolved |-> FirstTvdb(SeriesGuids(k))]

\* variant: the first record of a watcher is kept whatever comes later
EpisodeLookupStepFirstWins(watch_lookup, record, series_tvdb_cache) ==
    IF ~TruthyStr(record.grandparent_rating_key) THEN watch_lookup
    ELSE IF record.grandparent_rating_key \notin DOMAIN series_tvdb_cache THEN watch_lookup
    ELSE IF ~(/\ TruthyInt(record.season_num) /\ TruthyInt(record.episode_num)
              /\ TruthyStr(record.user) /\ TruthyInt(record.watched_at))
         THEN watch_lookup
    ELSE LET series_key == series_tvdb_cache[record.grandparent_rating_key]
             episode_key == make_episode_key(record.season_num, record.episode_num)
             series0 == IF series_key \in DOMAIN watch_lookup
                        THEN watch_lookup[series_key] ELSE <<>>
             episode0 == IF episode_key \in DOMAIN series0 THEN series0[episode_key]
                         ELSE <<>>
             episode1 ==
                 IF record.user \notin DOMAIN episode0
                 THEN [u \in DOMAIN episode0 \cup {record.user} |->
                         IF u = record.user
                         THEN [watched_at |-> record.watched_at,
                               season_num |-> record.season_num,
                               episode_num |-> record.episode_num]
                         ELSE episode0[u]]
                 ELSE episode0
             series1 == [k \in DOMAIN series0 \cup {episode_key} |->
                            IF k = episode_key THEN episode1 ELSE series0[k]]
         IN [k \in DOMAIN watch_lookup \cup {series_key} |->
                IF k = series_key THEN series1 ELSE watch_lookup[k]]

\* one iteration of the loop that builds the episode watch_lookup
EpisodeLookupStep(watch_lookup, record, series_tvdb_cache) ==
    IF ~TruthyStr(record.grandparent_rating_key) THEN watch_lookup
    ELSE IF record.grandparent_rating_key \notin DOMAIN series_tvdb_cache THEN watch_lookup
    ELSE IF ~(/\ TruthyInt(record.season_num) /\ TruthyInt(record.episode_num)
              /\ TruthyStr(record.user) /\ TruthyInt(record.watched_at))
         THEN watch_lookup
    ELSE LET series_key == series_tvdb_cache[record.grandparent_rating_key]
             episode_key == make_episode_key(record.season_num, record.episode_num)
             series0 == IF series_key \in DOMAIN watch_lookup
                        THEN watch_lookup[series_key] ELSE <<>>
             episode0 == IF episode_key \in DOMAIN series0 THEN series0[episode_key]
                         ELSE <<>>
             episode1 ==
                 IF record.user \notin DOMAIN episode0
                    \/ record.watched_at > episode0[record.user].watched_at
                 THEN [u \in DOMAIN episode0 \cup {record.user} |->
                         IF u = record.user
                         THEN [watched_at |-> record.watched_at,
                               season_num |-> record.season_num,
                               episode_num |-> record.episode_num]
                         ELSE episode0[u]]
                 ELSE episode0
             series1 == [k \in DOMAIN series0 \cup {episode_key} |->
                            IF k = episode_key THEN episode1 ELSE series0[k]]
         IN [k \in DOMAIN watch_lookup \cup {series_key} |->
                IF k = series_key THEN series1 ELSE watch_lookup[k]]

RECURSIVE BuildEpisodeWatchLookup(_, _, _)
BuildEpisodeWatchLookup(history, series_tvdb_cache, watch_lookup) ==
    IF history = <<>> THEN watch_lookup
    ELSE BuildEpisodeWatchLookup(Tail(history), series_tvdb_cache,
             EpisodeLookupStep(watch_lookup, Head(history), series_tvdb_cache))

get_all_sonarr_series(include_untagged) ==
    LET Username(series) == IF series.tags # <<>> THEN GetUserTags(series.tags) ELSE None
        Keep(series) == ~(~include_untagged /\ ~TruthyStr(Username(series)))
        kept == SelectSeq(sonarr, Keep)
    IN [i \in 1..Len(kept) |->
            [id |-> kept[i].id,
             tvdb_id |-> kept[i].tvdbId,
             user |-> Username(kept[i]),
             statistics |-> kept[i].statistics]]

\* number of episode keys of the series the requester watched, under the season filter
CountWatchedEpisodes(series_watch_info, series_user, season_filter) ==
    Cardinality({episode_key \in DOMAIN series_watch_info :
        LET parsed == ParseEpisodeKey(episode_key)
        IN /\ parsed.ok
           /\ ~(season_filter # NoInt /\ parsed.season_num # season_filter)
           /\ ~(season_filter = NoInt /\ parsed.season_num = 0)
           /\ TruthyStr(series_user)
           /\ series_user \in DOMAIN series_watch_info[episode_key]})

\* aired count, else count seen in the watch history, else downloaded count
ActualTotalEpisodes(total_available_episodes, total_episodes_in_watch_history, total_downloaded_episodes) ==
    IF total_available_episodes > 0 THEN total_available_episodes
    ELSE IF total_episodes_in_watch_history > 0 THEN total_episodes_in_watch_history
    ELSE total_downloaded_episodes

\* variant: the comparison of the two counts comes first
SeriesWatchStatusFullFirst(total_watched_episodes, actual_total_episodes) ==
    IF total_watched_episodes = actual_total_episodes THEN "fully_watched"
    ELSE IF actual_total_episodes = 0 THEN "no_episodes"
    ELSE IF total_watched_episodes = 0 THEN "unwatched"
    ELSE "partially_watched"

\* the status of a series from its two counts
SeriesWatchStatus(total_watched_episodes, actual_total_episodes) ==
    IF actual_total_episodes = 0 THEN "no_episodes"
    ELSE IF total_watched_episodes = 0 THEN "unwatched"
    ELSE IF total_watched_episodes = actual_total_episodes THEN "fully_watched"
    ELSE "partially_watched"

RECURSIVE MaxOf(_, _)
MaxOf(S, acc) ==
    IF S = {} THEN acc
    ELSE LET x == CHOOSE y \in S : TRUE
         IN MaxOf(S \ {x}, IF x > acc THEN x ELSE acc)

RECURSIVE MinOf(_, _)
MinOf(S, acc) ==
    IF S = {} THEN acc
    ELSE LET x == CHOOSE y \in S : TRUE
         IN MinOf(S \ {x}, IF acc = 0 \/ x < acc THEN x ELSE acc)

\* variant: the oldest watched_at over all episodes and users
MostRecentTsOldest(series_watch_info) ==
    MinOf(UNION {{series_watch_info[k][u].watched_at : u \in DOMAIN series_watch_info[k]} :
                    k \in DOMAIN series_watch_info}, 0)

\* most_recent_ts of a series: the largest watched_at over all episodes and users
MostRecentTs(series_watch_info) ==
    MaxOf(UNION {{series_watch_info[k][u].watched_at : u \in DOMAIN series_watch_info[k]} :
                    k \in DOMAIN series_watch_info}, 0)

\* PrunArr / SeriesService.get_series_with_watch_status
get_series_with_watch_status(include_untagged, username_filter, season_filter) ==
    LET all_series == get_all_sonarr_series(include_untagged)
        Keep(series) == ~(TruthyStr(username_filter) /\ series.user # username_filter)
        kept == SelectSeq(all_series, Keep)
        series_tvdb_cache == build_series_metadata_cache(episode_history)
        watch_lookup == BuildEpisodeWatchLookup(episode_history, series_tvdb_cache, <<>>)
        Annotate(series) ==
            LET series_watch_info == IF series.tvdb_id \in DOMAIN watch_lookup
                                     THEN watch_lookup[series.tvdb_id] ELSE <<>>
                total_watched_episodes ==
                    CountWatchedEpisodes(series_watch_info, series.user, season_filter)
                actual_total_episodes ==
                    ActualTotalEpisodes(series.statistics.episodeCount,
                                        Cardinality(DOMAIN series_watch_info),
                                        series.statistics.episodeFileCount)
                most_recent_ts == MostRecentTs(series_watch_info)
            IN [id |-> series.id,
                tvdb_id |-> series.tvdb_id,
                user |-> series.user,
                statistics |-> series.statistics,
                watch_status |-> SeriesWatchStatus(total_watched_episodes,
                                                   actual_total_episodes),
                watched_episodes |-> total_watched_episodes,
                total_episodes |-> actual_total_episodes,
                \* completion_percentage = completion_num / completion_den
                completion_num |-> IF actual_total_episodes > 0
                                   THEN total_watched_episodes * 100 ELSE 0,
                completion_den |-> IF actual_total_episodes > 0
                                   THEN actual_total_episodes ELSE 1,
                most_recent_watch |-> IF most_recent_ts > 0 THEN most_recent_ts ELSE NoInt,
                days_since_watched |-> IF most_recent_ts > 0 THEN DaysSince(most_recent_ts)
                                       ELSE NoInt]
    IN [i \in 1..Len(kept) |-> Annotate(kept[i])]

\* series.get("seasons_data", [])
SeasonsData(series) ==
    IF "seasons_data" \in DOMAIN series THEN series.seasons_data ELSE <<>>

\* variant: a partially watched series passes too
SeriesReadyForRemovalPartial(series, days_watched) ==
    /\ series.watch_status \in {"fully_watched", "partially_watched"}
    /\ series.days_since_watched # NoInt
    /\ series.days_since_watched >= days_watched

\* the test of the "series" removal mode on one annotated series
SeriesReadyForRemoval(series, days_watched) ==
    /\ series.watch_status = "fully_watched"
    /\ series.days_since_watched # NoInt
    /\ series.days_since_watched >= days_watched

\* the test of the "season" removal mode on one season_data of a series
SeasonReadyForRemoval(series, season_data, days_watched) ==
    /\ season_data.completion_num = 100 * season_data.completion_den
    /\ series.days_since_watched # NoInt
    /\ series.days_since_watched >= days_watched

RemovalItem(series, removal_type, season_number) ==
    [id |-> series.id, user |-> series.user, watch_status |-> series.watch_status,
     days_since_watched |-> series.days_since_watched,
     removal_type |-> removal_type, season_number |-> season_number]

RECURSIVE SeriesRemovalItems(_, _, _)
\* the loop of get_series_ready_for_removal for the modes "series" and "season"
SeriesRemovalItems(series_list, days_watched, removal_mode) ==
    IF series_list = <<>> THEN <<>>
    ELSE LET series == Head(series_list)
             rest == SeriesRemovalItems(Tail(series_list), days_watched, removal_mode)
             seasons == SelectSeq(SeasonsData(series),
                            LAMBDA sd : SeasonReadyForRemoval(series, sd, days_watched))
         IN IF ~TruthyStr(series.user) THEN rest
            ELSE IF removal_mode = "series"
                 THEN (IF SeriesReadyForRemoval(series, days_watched)
                       THEN <<RemovalItem(series, "series", NoInt)>> ELSE <<>>) \o rest
            ELSE IF removal_mode = "season"
                 THEN [i \in 1..Len(seasons) |->
                          RemovalItem(series, "season", seasons[i].season_number)] \o rest
            ELSE rest

\* ------------------------------------------------------------------ episodes
\* SonarrAPI.get_episodes(series_id)
RawEpisode(id, season, episode, has_file, file_id) ==
    [id |-> id, seasonNumber |-> season, episodeNumber |-> episode,
     hasFile |-> has_file, episodeFileId |-> file_id]

get_episodes(series_id) ==
    CASE series_id = 1 -> <<RawEpisode(11, 1, 1, TRUE, 10), RawEpisode(12, 1, 2, TRUE, 10),
                            RawEpisode(13, 2, 1, TRUE, 11)>>
      [] series_id = 2 -> <<RawEpisode(21, 1, 1, TRUE, 20), RawEpisode(22, 1, 2, FALSE, 0)>>
      [] OTHER -> <<>>

\* SonarrAPI.get_episode_files(series_id): each file names the episodes it holds
get_episode_files(series_id) ==
    CASE series_id = 1 -> <<[id |-> 10, episodes |-> <<[id |-> 11], [id |-> 12]>>],
                            [id |-> 11, episodes |-> <<[id |-> 13]>>]>>
      [] series_id = 2 -> <<[id |-> 20, episodes |-> <<[id |-> 21]>>]>>
      [] OTHER -> <<>>

NoWatchInfo == [days_since_watched |-> NoInt]

\* SeriesService._get_episode_watch_info; NoWatchInfo stands for None
GetEpisodeWatchInfo(series, episode_key, user) ==
    LET episodes_watched == IF "episodes_watched" \in DOMAIN series
                            THEN series.episodes_watched ELSE <<>>
        user_episodes == IF user \in DOMAIN episodes_watched
                         THEN episodes_watched[user] ELSE <<>>
    IN IF episode_key \in DOMAIN user_episodes THEN user_episodes[episode_key]
       ELSE NoWatchInfo

\* variant: one qualifying episode of the file is enough
CheckAnyEpisodeWatched(episodes_in_file, series, user, days_watched) ==
    \E i \in 1..Len(episodes_in_file) :
        LET ep == episodes_in_file[i]
            watch_info == GetEpisodeWatchInfo(series,
                              make_episode_key(ep.seasonNumber, ep.episodeNumber), user)
        IN ~(watch_info = NoWatchInfo \/ watch_info.days_since_watched < days_watched)

\* SeriesService._check_all_episodes_watched
CheckAllEpisodesWatched(episodes_in_file, series, user, days_watched) ==
    \A i \in 1..Len(episodes_in_file) :
        LET ep == episodes_in_file[i]
            watch_info == GetEpisodeWatchInfo(series,
                              make_episode_key(ep.seasonNumber, ep.episodeNumber), user)
        IN ~(watch_info = NoWatchInfo \/ watch_info.days_since_watched < days_watched)

\* file_to_episodes[file_id]: the full episode objects of the episodes a file names
FileToEpisodes(episodes, episode_files, file_id) ==
    LET files == SelectSeq(episode_files, LAMBDA f : f.id = file_id)
    IN IF files = <<>> THEN <<>>
       ELSE LET named == files[Len(files)].episodes
                Full(ref) == SelectSeq(episodes, LAMBDA e : e.id = ref.id)
                found == SelectSeq(named, LAMBDA ref : Full(ref) # <<>>)
            IN [i \in 1..Len(found) |-> Full(found[i])[1]]

\* the candidates the episode loop of get_episodes_ready_for_removal adds for
\* one series, given the episodes and episode files fetched for it
EpisodeCandidatesFrom(series, episodes, episode_files, days_watched) ==
    LET Ready(episode) ==
            LET episode_key == make_episode_key(episode.seasonNumber, episode.episodeNumber)
                watch_info == GetEpisodeWatchInfo(series, episode_key, series.user)
            IN /\ episode.hasFile
               /\ episode.episodeFileId # 0
               /\ ~(watch_info = NoWatchInfo \/ watch_info.days_since_watched < days_watched)
               /\ CheckAllEpisodesWatched(
                      FileToEpisodes(episodes, episode_files, episode.episodeFileId),
                      series, series.user, days_watched)
        ready == SelectSeq(episodes, Ready)
    IN [i \in 1..Len(ready) |->
            [series_id |-> series.id,
             series_user |-> series.user,
             episode_id |-> ready[i].id,
             episode_file_id |-> ready[i].episodeFileId,
             season_number |-> ready[i].seasonNumber,
             episode_number |-> ready[i].episodeNumber,
             days_since_watched |->
                 GetEpisodeWatchInfo(series,
                     make_episode_key(ready[i].seasonNumber, ready[i].episodeNumber),
                     series.user).days_since_watched]]

\* the candidates get_episodes_ready_for_removal adds for one series
EpisodeCandidatesOf(series, days_watched) ==
    EpisodeCandidatesFrom(series, get_episodes(series.id), get_episode_files(series.id),
                          days_watched)

\* SonarrAPI.get_episode_files when the request may fail: every exception is
\* caught and an empty list returned
FetchEpisodeFiles(series_id, failed) ==
    IF series_id \in failed THEN <<>> ELSE get_episode_files(series_id)

\* SonarrAPI.get_episodes when the request may fail: the failure is absorbed
\* and the series has no episode data
FetchEpisodes(series_id, failed) ==
    IF series_id \in failed THEN <<>> ELSE get_episodes(series_id)

RECURSIVE EvaluateEpisodes(_, _, _, _)
\* the loop of get_episodes_ready_for_removal over the annotated series when
\* the fetches of episodes_failed / files_failed fail
EvaluateEpisodes(series_list, days_watched, episodes_failed, files_failed) ==
    IF series_list = <<>> THEN <<>>
    ELSE IF ~TruthyStr(Head(series_list).user)
         THEN EvaluateEpisodes(Tail(series_list), days_watched, episodes_failed, files_failed)
    ELSE EpisodeCandidatesFrom(Head(series_list),
                               FetchEpisodes(Head(series_list).id, episodes_failed),
                               FetchEpisodeFiles(Head(series_list).id, files_failed),
                               days_watched)
             \o EvaluateEpisodes(Tail(series_list), days_watched, episodes_failed, files_failed)

RECURSIVE EpisodeRemovalItems(_, _)
\* the loop of get_episodes_ready_for_removal over the annotated series
EpisodeRemovalItems(series_list, days_watched) ==
    IF series_list = <<>> THEN <<>>
    ELSE IF ~TruthyStr(Head(series_list).user)
         THEN EpisodeRemovalItems(Tail(series_list), days_watched)
    ELSE EpisodeCandidatesOf(Head(series_list), days_watched)
             \o EpisodeRemovalItems(Tail(series_list), days_watched)


\* ------------------------------------------------------------------ cache warm-up
\* what the three phase-1 requests return when they succeed
WarmupData(task_name) ==
    CASE task_name = "movies" -> <<[id |-> 1, tags |-> <<1>>]>>
      [] task_name = "series" -> <<[id |-> 1, tags |-> <<1, 2>>], [id |-> 2, tags |-> <<>>]>>
      [] task_name = "history" ->
            <<[rating_key |-> "rk1", grandparent_rating_key |-> None],
              [rating_key |-> "rk1", grandparent_rating_key |-> None],
              [rating_key |-> None, grandparent_rating_key |-> "g1"]>>

\* at most this many tasks of one warm-up raise
MaxFailures == 2

NoOutcomes == <<<<>>, <<>>, <<>>, <<>>>>

\* phase: 0 before the first submit, 1..4 while that phase's executor is open,
\* 5 once the warm-up has finished
NoWarmup ==
    [phase |-> 0, full |-> FALSE, pending |-> {}, completed |-> <<>>,
     outcome |-> NoOutcomes, results |-> <<>>, cached_tags |-> 0, cached_metadata |-> 0,
     cached_episodes |-> 0, total_episodes |-> 0, failures |-> 0]

\* the futures dict of each phase, given the results merged so far
Phase1Tasks == {"movies", "series", "history"}

TagsOf(items) == UNION {Range(items[i].tags) : i \in 1..Len(items)}

Phase2Tasks(results) ==
    (IF "movies" \in DOMAIN results THEN TagsOf(results["movies"]) ELSE {})
    \cup (IF "series" \in DOMAIN results THEN TagsOf(results["series"]) ELSE {})

Phase3Tasks(results) ==
    IF "history" \notin DOMAIN results THEN {}
    ELSE LET history == results["history"]
         IN ({history[i].grandparent_rating_key : i \in 1..Len(history)}
             \cup {history[i].rating_key : i \in 1..Len(history)}) \ {None, ""}

Phase4Tasks(results, full) ==
    IF ~(full /\ "series" \in DOMAIN results) THEN {}
    ELSE {results["series"][i].id : i \in 1..Len(results["series"])} \ {0}

PhaseTasks(phase, results, full) ==
    CASE phase = 1 -> Phase1Tasks
      [] phase = 2 -> Phase2Tasks(results)
      [] phase = 3 -> Phase3Tasks(results)
      [] phase = 4 -> Phase4Tasks(results, full)

\* a worker finishes the task: its future holds a result or an exception
CompleteTask(w, task, ok) ==
    [w EXCEPT !.pending = @ \ {task},
              !.completed = Append(@, task),
              !.outcome[w.phase] = (task :> (IF ok THEN "ok" ELSE "exc")) @@ @,
              !.failures = IF ok THEN @ ELSE @ + 1]

\* variant: every phase-1 result is stored under one shared key
ResultKeyShared(task_name) == "data"

\* the key under which a phase-1 result is merged into results
ResultKey(task_name) ==
    task_name

\* variant: the first exception ends the warm-up and drops the waiting futures
CollectFutureFailFast(w, task) ==
    LET ok == w.outcome[w.phase][task] = "ok"
        rest == [w EXCEPT !.completed = Tail(@)]
    IN IF ~ok THEN [w EXCEPT !.phase = 0 - 1, !.pending = {}, !.completed = <<>>]
       ELSE CASE w.phase = 1 ->
                    [rest EXCEPT !.results = (ResultKey(task) :> WarmupData(task)) @@ @]
              [] w.phase = 2 -> [rest EXCEPT !.cached_tags = @ + 1]
              [] w.phase = 3 -> [rest EXCEPT !.cached_metadata = @ + 1]
              [] w.phase = 4 -> [rest EXCEPT !.cached_episodes = @ + 1,
                                             !.total_episodes = @ + Len(get_episodes(task))]

\* one iteration of the as_completed loop: future.result() inside try/except
CollectFuture(w, task) ==
    LET ok == w.outcome[w.phase][task] = "ok"
        rest == [w EXCEPT !.completed = Tail(@)]
    IN IF ~ok THEN rest
       ELSE CASE w.phase = 1 ->
                    [rest EXCEPT !.results = (ResultKey(task) :> WarmupData(task)) @@ @]
              [] w.phase = 2 -> [rest EXCEPT !.cached_tags = @ + 1]
              [] w.phase = 3 -> [rest EXCEPT !.cached_metadata = @ + 1]
              [] w.phase = 4 -> [rest EXCEPT !.cached_episodes = @ + 1,
                                             !.total_episodes = @ + Len(get_episodes(task))]

\* the next phase that has something to fetch, 5 when there is none
NextWarmupPhase(phase, results, full) ==
    LET later == {p \in (phase + 1)..4 : PhaseTasks(p, results, full) # {}}
    IN IF later = {} THEN 5 ELSE CHOOSE p \in later : \A q \in later : p <= q

\* ------------------------------------------------------------------ remove commands
\* at most this many candidates reach the display of a remove command
MaxCandidates == 2

\* kind "movies" (remove_movies) or "series" (remove_series, mode series | season);
\* stage: "idle", "confirm", "delete", "returned" (left before the deletion
\* loop), "finished" (deletion loop and summary done)
NoRemoval ==
    [kind |-> "none", mode |-> "none", dry_run |-> FALSE, force |-> FALSE,
     stage |-> "idle", candidates |-> <<>>, listed |-> <<>>, prompts |-> 0, index |-> 1,
     delete_calls |-> <<>>, outcomes |-> <<>>, removed_count |-> 0, failed_count |-> 0,
     failure_logs |-> <<>>]

\* confirmation prompts a command asks without --force
PromptsOf(kind) == IF kind = "series" THEN 2 ELSE 1

\* variant: --dry-run does not stop the command
StageAfterDisplayNoDryRun(candidates, dry_run, force) ==
    IF candidates = <<>> THEN "returned"
    ELSE IF ~force THEN "confirm"
    ELSE "delete"

\* where the command goes once the candidates are displayed
StageAfterDisplay(candidates, dry_run, force) ==
    IF candidates = <<>> THEN "returned"
    ELSE IF dry_run THEN "returned"
    ELSE IF ~force THEN "confirm"
    ELSE "delete"

\* variant: an exception of the delete call leaves the loop
DeleteStepStopOnError(r, outcome) ==
    LET item == r.candidates[r.index]
        called == [r EXCEPT !.index = @ + 1,
                            !.delete_calls = Append(@, item.id),
                            !.outcomes = Append(@, outcome)]
    IN IF outcome = "raise"
       THEN [called EXCEPT !.index = Len(r.candidates) + 1,
                           !.failure_logs = Append(@, item.id)]
       ELSE IF outcome = "ok" THEN [called EXCEPT !.removed_count = @ + 1]
       ELSE [called EXCEPT !.failure_logs = Append(@, item.id),
                           !.failed_count = IF r.kind = "series" THEN @ + 1 ELSE @]

\* one iteration of the deletion loop; outcome is what the delete call does:
\* "ok" (returns True), "fail" (returns False), "raise"
DeleteStep(r, outcome) ==
    LET item == r.candidates[r.index]
        called == [r EXCEPT !.index = @ + 1,
                            !.delete_calls = Append(@, item.id),
                            !.outcomes = Append(@, outcome)]
    IN IF r.kind = "series" /\ r.mode # "series"
       THEN [r EXCEPT !.index = @ + 1, !.failed_count = @ + 1]
       ELSE IF outcome = "ok" THEN [called EXCEPT !.removed_count = @ + 1]
       ELSE [called EXCEPT !.failure_logs = Append(@, item.id),
                           !.failed_count = IF r.kind = "series" THEN @ + 1 ELSE @]

\* ------------------------------------------------------------------ season deletion
\* episode files Sonarr may report for the series: two episodes of season 1,
\* a file spanning seasons 1 and 2, a file that lists no episodes, one episode
\* of season 2, one episode of season 1, one special (season 0)
SeasonFile(id, seasons) ==
    [id |-> id, episodes |-> [i \in 1..Len(seasons) |-> [seasonNumber |-> seasons[i]]]]

SeasonFilePool ==
    {SeasonFile(10, <<1, 1>>), SeasonFile(11, <<1, 2>>), SeasonFile(12, <<>>),
     SeasonFile(13, <<2>>), SeasonFile(14, <<1>>), SeasonFile(15, <<0>>)}

\* stage: "idle", "delete" (inside the deletion loop), "returned"
NoSeasonDelete ==
    [stage |-> "idle", episode_files |-> {}, season_number |-> 0, unmonitor |-> FALSE,
     season_file_ids |-> {}, remaining |-> {}, delete_calls |-> <<>>, failed |-> {},
     all_success |-> TRUE, unmonitored |-> FALSE, result |-> FALSE]

\* variant: one episode of the target season is enough to select the file
AnyInSeason(ep_file, season_number) ==
    /\ ep_file.episodes # <<>>
    /\ \E i \in 1..Len(ep_file.episodes) : ep_file.episodes[i].seasonNumber = season_number

\* the file lists episodes and all of them belong to the target season
AllInSeason(ep_file, season_number) ==
    /\ ep_file.episodes # <<>>
    /\ \A i \in 1..Len(ep_file.episodes) : ep_file.episodes[i].seasonNumber = season_number

SeasonFileIds(episode_files, season_number) ==
    {ep_file.id : ep_file \in {f \in episode_files : AllInSeason(f, season_number)}}

\* variant: the season is unmonitored whenever that was requested
ShouldUnmonitorAlways(unmonitor, all_success) ==
    unmonitor

\* the test before unmonitor_season is called
ShouldUnmonitor(unmonitor, all_success) ==
    unmonitor /\ all_success

\* ------------------------------------------------------------------ watch history pages
\* page_size and limit arguments, and the number of records Tautulli holds
MaxPageSize == 2
MaxLimit == 3
MaxRecords == 4

\* limit is NoInt when the argument is None
NoHistoryFetch ==
    [stage |-> "idle", page_size |-> 1, limit |-> NoInt, total |-> 0,
     all_records |-> <<>>, start |-> 0, requests |-> <<>>]

\* get_history of a server holding records 1..total: at most length records
\* from offset start
ServerPage(total, start, length) ==
    LET available == IF total > start THEN total - start ELSE 0
        n == IF length < available THEN length ELSE available
    IN [i \in 1..(IF n > 0 THEN n ELSE 0) |-> start + i]

\* the length asked for in one iteration
CurrentPageSize(page_size, limit, collected) ==
    IF TruthyInt(limit) /\ (limit - collected) < page_size THEN limit - collected
    ELSE page_size

\* one iteration of the while loop: request, extend, and break or advance
HistoryIteration(h) ==
    LET current_page_size == CurrentPageSize(h.page_size, h.limit, Len(h.all_records))
        page_data == ServerPage(h.total, h.start, current_page_size)
        asked == [h EXCEPT !.requests = Append(@, [start |-> h.start,
                                                   length |-> current_page_size,
                                                   collected |-> Len(h.all_records),
                                                   returned |-> Len(page_data)])]
        extended == [asked EXCEPT !.all_records = @ \o page_data]
    IN IF page_data = <<>> THEN [asked EXCEPT !.stage = "returned"]
       ELSE IF TruthyInt(h.limit) /\ Len(extended.all_records) >= h.limit
            THEN [extended EXCEPT !.stage = "returned"]
       ELSE IF Len(page_data) < current_page_size
            THEN [extended EXCEPT !.stage = "returned"]
       ELSE [extended EXCEPT !.start = @ + current_page_size]

\* ------------------------------------------------------------------ inputs (movies)
RawMovie(id, imdb, tags, has_file, size) ==
    [id |-> id, imdbId |-> imdb, tags |-> tags, movieFile |-> has_file, size |-> size]

\* tag lists: requester alice, requester bob behind a non-user tag, a raising
\* tag before alice's, no tag
MovieTagLists == {<<1>>, <<3, 2>>, <<4, 1>>, <<>>}

RadarrLibraries ==
    {<<RawMovie(1, "tt1", t1, TRUE, 700 * MB), RawMovie(2, "tt2", m2[1], m2[2], 1500 * MB)>> :
        t1 \in MovieTagLists, m2 \in {<<(<<1>>), TRUE>>, <<(<<3>>), TRUE>>, <<(<<1>>), FALSE>>}}

\* 60 days ago to the second, and one second short of 60 days
MovieEvents ==
    [rating_key : {"rk1", "rk2"}, user : {"alice"},
     watched_at : {DaysAgo(75), DaysAgo(60), DaysAgo(60) + 1}]
    \cup [rating_key : {"rk1", "rk2"}, user : {"bob"},
          watched_at : {DaysAgo(75), DaysAgo(10)}]

RemoveOption(include_untagged, username, min_filesize_bytes, sort_by, sort_desc, limit) ==
    [days_watched |-> DefaultDaysWatched, include_untagged |-> include_untagged,
     username |-> username, min_filesize_bytes |-> min_filesize_bytes,
     sort_by |-> sort_by, sort_desc |-> sort_desc, limit |-> limit]

\* option values of "movies remove": the defaults, --include-untagged,
\* --username, --min-filesize, --limit and --sort-by/--sort-asc
RemoveOptions ==
    {RemoveOption(u, n, NoInt, "days_watched", TRUE, NoInt) :
        u \in BOOLEAN, n \in {None, "alice"}}
    \cup {RemoveOption(TRUE, None, 1000 * MB, "days_watched", TRUE, NoInt),
          RemoveOption(TRUE, None, NoInt, "days_watched", FALSE, 1),
          RemoveOption(FALSE, None, NoInt, "filesize", TRUE, 1)}

NoOp == [name |-> "none", days_watched |-> NoInt, mode |-> None, options |-> <<>>]

\* ------------------------------------------------------------------ inputs (series)
RawSeries(id, tvdb, tags, episode_count, file_count) ==
    [id |-> id, tvdbId |-> tvdb, tags |-> tags,
     statistics |-> [episodeCount |-> episode_count, episodeFileCount |-> file_count]]

SonarrLibraries ==
    {<<RawSeries(1, "101", t1, c1[1], c1[2]), RawSeries(2, "102", <<1>>, 2, 1)>> :
        t1 \in {<<1>>, <<3, 2>>, <<>>}, c1 \in {<<3, 3>>, <<0, 3>>, <<0, 0>>}}
    \cup {<<RawSeries(1, "101", <<1>>, 2, 2), RawSeries(2, "102", <<1>>, 2, 1)>>}

EpisodeEvent(key, season, episode, user, ts) ==
    [grandparent_rating_key |-> key, season_num |-> season, episode_num |-> episode,
     user |-> user, watched_at |-> ts]

EpisodeEvents ==
    {EpisodeEvent("g1", e[1], e[2], "alice", ts) :
        e \in {<<1, 1>>, <<1, 2>>, <<2, 1>>}, ts \in {DaysAgo(60), DaysAgo(60) + 1}}
    \cup {EpisodeEvent("g1", e[1], e[2], "bob", DaysAgo(10)) : e \in {<<1, 1>>, <<2, 1>>}}
    \cup {EpisodeEvent("g2", 1, 1, "alice", DaysAgo(75)),
          EpisodeEvent("g1", 0, 1, "alice", DaysAgo(75))}

\* series dicts handed to _check_all_episodes_watched: with the episodes_watched
\* mapping its docstring describes (user -> episode key -> watch info), or without
EpisodesWatchedInputs ==
    {("alice" :> [k \in S |-> [days_since_watched |-> d]]) @@ other :
        S \in SUBSET {make_episode_key(1, 1), make_episode_key(1, 2)},
        d \in {DefaultDaysWatched - 1, DefaultDaysWatched},
        other \in {<<>>, ("bob" :> (make_episode_key(1, 2) :>
                                     [days_since_watched |-> DefaultDaysWatched]))}}

CheckSeriesInputs ==
    {[id |-> 1, user |-> "alice", episodes_watched |-> ew] : ew \in EpisodesWatchedInputs}
    \cup {[id |-> 1, user |-> "alice"]}

CheckFileInputs ==
    {FileToEpisodes(get_episodes(1), get_episode_files(1), f) : f \in {10, 11, 12}}

NoCheck == [ran |-> FALSE]

\* two requested series with the requester's old-enough watches, and the
\* series whose episode / episode-file request fails
FetchSeriesLists ==
    {<<[id |-> 1, user |-> "alice",
        episodes_watched |-> ("alice" :> [k \in S |-> [days_since_watched |-> DefaultDaysWatched]])],
       [id |-> 2, user |-> "alice",
        episodes_watched |-> ("alice" :> (make_episode_key(1, 1) :>
                                             [days_since_watched |-> DefaultDaysWatched]))]>> :
        S \in SUBSET {make_episode_key(1, 1), make_episode_key(1, 2)}}

FailedFetches == SUBSET {1, 2}

\* tag id lists handed to get_user_tags
MaxTags == 2
TagIds == 1..4

TagIdLists == UNION {[1..n -> TagIds] : n \in 0..MaxTags}

\* movie histories from which watch_lookup is built
MaxIndexHist == 3
IndexRatingKeys == {"rk1", "rk2", "rk3", None}

\* complete records, and records whose friendly_name or date is missing
IndexRecords ==
    [rating_key : IndexRatingKeys, user : {"alice"}, watched_at : {DaysAgo(75)}]
    \cup {[rating_key |-> "rk1", user |-> None, watched_at |-> DaysAgo(75)],
          [rating_key |-> "rk1", user |-> "alice", watched_at |-> NoInt]}

IndexHistories == UNION {[1..n -> IndexRecords] : n \in 0..MaxIndexHist}

\* episode histories handed to build_series_metadata_cache
MaxCacheHist == 3
CacheSeriesKeys == {"g1", "g2", "g3", "g4", None}

CacheHistories ==
    UNION {[1..n -> {EpisodeEvent(k, 1, 1, "alice", DaysAgo(75)) : k \in CacheSeriesKeys}] :
              n \in 0..MaxCacheHist}

\* ------------------------------------------------------------------ behaviour
Init ==
    /\ cmd \in {"movies", "series", "check_file", "check_episodes", "check_status",
               "check_tags", "check_cache", "check_index", "check_fetch", "cache_init", "remove", "delete_season", "history"}
    /\ pc = "fetch"
    /\ radarr \in (IF cmd = "movies" THEN RadarrLibraries ELSE {<<>>})
    /\ movie_history = <<>>
    /\ sonarr \in (IF cmd = "series" THEN SonarrLibraries ELSE {<<>>})
    /\ episode_history = <<>>
    /\ op = NoOp
    /\ movies_with_status = <<>>
    /\ movies_to_remove = <<>>
    /\ series_with_status = <<>>
    /\ items_to_remove = <<>>
    /\ episodes_to_remove = <<>>
    /\ file_check = NoCheck
    /\ episode_check = NoCheck
    /\ status_check = NoCheck
    /\ watch_index = <<>>
    /\ tag_check = NoCheck
    /\ cache_check = NoCheck
    /\ index_check = NoCheck
    /\ fetch_check = NoCheck
    /\ warmup = NoWarmup
    /\ removal = NoRemoval
    /\ season_delete = NoSeasonDelete
    /\ history_fetch = NoHistoryFetch

\* Tautulli reports one more completed movie watch
TautulliMovieWatched ==
    /\ cmd = "movies" /\ pc = "fetch"
    /\ Len(movie_history) < MaxMovieHist
    /\ \E record \in MovieEvents : movie_history' = Append(movie_history, record)
    /\ UNCHANGED <<cmd, pc, radarr, sonarr, episode_history, op, movies_with_status,
                   movies_to_remove, series_with_status, items_to_remove,
                   episodes_to_remove, file_check,
                   episode_check, status_check, watch_index,
                   tag_check, cache_check, index_check,
                   fetch_check,
                   warmup,
                   removal,
                   season_delete,
                   history_fetch>>

\* PrunArr.get_movies_ready_for_removal(days_watched)
GetMoviesReadyForRemoval ==
    /\ cmd = "movies" /\ pc = "fetch"
    /\ \E days_watched \in {DefaultDaysWatched} :
        /\ op' = [NoOp EXCEPT !.name = "get_movies_ready_for_removal",
                              !.days_watched = days_watched]
        /\ movies_with_status' = get_movies_with_watch_status(FALSE, None)
        /\ watch_index' = BuildMovieWatchLookup(movie_history, <<>>)
        /\ movies_to_remove' = get_movies_ready_for_removal(days_watched)
    /\ pc' = "done"
    /\ UNCHANGED <<cmd, radarr, movie_history, sonarr, episode_history,
                   series_with_status, items_to_remove, episodes_to_remove, file_check,
                   episode_check, status_check,
                   tag_check, cache_check, index_check,
                   fetch_check,
                   warmup,
                   removal,
                   season_delete,
                   history_fetch>>

\* the candidate computation of the "movies remove" command
RemoveMovies ==
    /\ cmd = "movies" /\ pc = "fetch"
    /\ \E o \in RemoveOptions :
        /\ op' = [NoOp EXCEPT !.name = "remove_movies", !.days_watched = o.days_watched,
                              !.options = o]
        /\ movies_with_status' = get_movies_with_watch_status(o.include_untagged, o.username)
        /\ watch_index' = BuildMovieWatchLookup(movie_history, <<>>)
        /\ movies_to_remove' = remove_movies_candidates(o)
    /\ pc' = "done"
    /\ UNCHANGED <<cmd, radarr, movie_history, sonarr, episode_history,
                   series_with_status, items_to_remove, episodes_to_remove, file_check,
                   episode_check, status_check,
                   tag_check, cache_check, index_check,
                   fetch_check,
                   warmup,
                   removal,
                   season_delete,
                   history_fetch>>

\* filter_by_days_watched applied to the annotated movies
FilterByDaysWatched ==
    /\ cmd = "movies" /\ pc = "fetch"
    /\ \E min_days \in {NoInt, DefaultDaysWatched} :
        /\ op' = [NoOp EXCEPT !.name = "filter_by_days_watched", !.days_watched = min_days]
        /\ movies_with_status' = get_movies_with_watch_status(TRUE, None)
        /\ watch_index' = BuildMovieWatchLookup(movie_history, <<>>)
        /\ movies_to_remove' =
              filter_by_days_watched(get_movies_with_watch_status(TRUE, None), min_days)
    /\ pc' = "done"
    /\ UNCHANGED <<cmd, radarr, movie_history, sonarr, episode_history,
                   series_with_status, items_to_remove, episodes_to_remove, file_check,
                   episode_check, status_check,
                   tag_check, cache_check, index_check,
                   fetch_check,
                   warmup,
                   removal,
                   season_delete,
                   history_fetch>>

\* Tautulli reports one more completed episode watch
TautulliEpisodeWatched ==
    /\ cmd = "series" /\ pc = "fetch"
    /\ Len(episode_history) < MaxEpHist
    /\ \E record \in EpisodeEvents : episode_history' = Append(episode_history, record)
    /\ UNCHANGED <<cmd, pc, radarr, movie_history, sonarr, op, movies_with_status,
                   movies_to_remove, series_with_status, items_to_remove,
                   episodes_to_remove, file_check,
                   episode_check, status_check, watch_index,
                   tag_check, cache_check, index_check,
                   fetch_check,
                   warmup,
                   removal,
                   season_delete,
                   history_fetch>>

\* get_series_with_watch_status as the "series list" command calls it
ListSeries ==
    /\ cmd = "series" /\ pc = "fetch"
    /\ \E season_filter \in {NoInt, 0, 1} :
        /\ op' = [NoOp EXCEPT !.name = "get_series_with_watch_status",
                              !.options = [season_filter |-> season_filter]]
        /\ series_with_status' = get_series_with_watch_status(TRUE, None, season_filter)
        /\ watch_index' = BuildEpisodeWatchLookup(episode_history,
                              build_series_metadata_cache(episode_history), <<>>)
    /\ pc' = "done"
    /\ UNCHANGED <<cmd, radarr, movie_history, sonarr, episode_history, movies_with_status,
                   movies_to_remove, items_to_remove, episodes_to_remove, file_check,
                   episode_check, status_check,
                   tag_check, cache_check, index_check,
                   fetch_check,
                   warmup,
                   removal,
                   season_delete,
                   history_fetch>>

\* get_series_ready_for_removal(days_watched, removal_mode); the mode "episode"
\* is handed to get_episodes_ready_for_removal
GetSeriesReadyForRemoval ==
    /\ cmd = "series" /\ pc = "fetch"
    /\ \E days_watched \in {DefaultDaysWatched}, removal_mode \in {"series", "season", "episode"} :
        /\ op' = [NoOp EXCEPT !.name = "get_series_ready_for_removal",
                              !.days_watched = days_watched, !.mode = removal_mode]
        /\ series_with_status' = get_series_with_watch_status(FALSE, None, NoInt)
        /\ watch_index' = BuildEpisodeWatchLookup(episode_history,
                              build_series_metadata_cache(episode_history), <<>>)
        /\ items_to_remove' =
              IF removal_mode = "episode" THEN <<>>
              ELSE SeriesRemovalItems(get_series_with_watch_status(FALSE, None, NoInt),
                                      days_watched, removal_mode)
        /\ episodes_to_remove' =
              IF removal_mode = "episode"
              THEN EpisodeRemovalItems(get_series_with_watch_status(FALSE, None, NoInt),
                                       days_watched)
              ELSE <<>>
    /\ pc' = "done"
    /\ UNCHANGED <<cmd, radarr, movie_history, sonarr, episode_history, movies_with_status,
                   movies_to_remove, file_check, episode_check, status_check,
                   tag_check, cache_check, index_check,
                   fetch_check,
                   warmup,
                   removal,
                   season_delete,
                   history_fetch>>

\* _check_all_episodes_watched applied to the episodes of one file
CheckFileEpisodes ==
    /\ cmd = "check_file" /\ pc = "fetch"
    /\ \E episodes_in_file \in CheckFileInputs, series \in CheckSeriesInputs,
          days_watched \in {DefaultDaysWatched} :
        file_check' = [ran |-> TRUE, episodes_in_file |-> episodes_in_file,
                       series |-> series, user |-> series.user,
                       days_watched |-> days_watched,
                       all_watched |-> CheckAllEpisodesWatched(episodes_in_file, series,
                                                               series.user, days_watched)]
    /\ pc' = "done"
    /\ UNCHANGED <<cmd, radarr, movie_history, sonarr, episode_history, op,
                   movies_with_status, movies_to_remove, series_with_status,
                   items_to_remove, episodes_to_remove, episode_check, status_check, watch_index,
                   tag_check, cache_check, index_check,
                   fetch_check,
                   warmup,
                   removal,
                   season_delete,
                   history_fetch>>

\* the episode loop of get_episodes_ready_for_removal on one series dict
CheckSeriesEpisodes ==
    /\ cmd = "check_episodes" /\ pc = "fetch"
    /\ \E series \in CheckSeriesInputs, days_watched \in {DefaultDaysWatched} :
        episode_check' = [ran |-> TRUE, series |-> series, days_watched |-> days_watched,
                          candidates |-> EpisodeCandidatesOf(series, days_watched)]
    /\ pc' = "done"
    /\ UNCHANGED <<cmd, radarr, movie_history, sonarr, episode_history, op,
                   movies_with_status, movies_to_remove, series_with_status,
                   items_to_remove, episodes_to_remove, file_check, status_check,
                   watch_index,
                   tag_check, cache_check, index_check,
                   fetch_check,
                   warmup,
                   removal,
                   season_delete,
                   history_fetch>>

\* the episode loop of get_episodes_ready_for_removal over two series while
\* some upstream requests fail
EvaluateEpisodesWithFailures ==
    /\ cmd = "check_fetch" /\ pc = "fetch"
    /\ \E series_list \in FetchSeriesLists, episodes_failed \in FailedFetches,
          files_failed \in FailedFetches :
        fetch_check' = [ran |-> TRUE, series_list |-> series_list,
                        days_watched |-> DefaultDaysWatched,
                        episodes_failed |-> episodes_failed, files_failed |-> files_failed,
                        candidates |-> EvaluateEpisodes(series_list, DefaultDaysWatched,
                                                        episodes_failed, files_failed)]
    /\ pc' = "done"
    /\ UNCHANGED <<cmd, radarr, movie_history, sonarr, episode_history, op,
                   movies_with_status, movies_to_remove, series_with_status,
                   items_to_remove, episodes_to_remove, file_check, episode_check,
                   status_check, watch_index, tag_check, cache_check, index_check,
                   warmup,
                   removal,
                   season_delete,
                   history_fetch>>

\* init_cache submits the three phase-1 requests to the thread pool
WarmupSubmit ==
    /\ cmd = "cache_init" /\ pc = "fetch" /\ warmup.phase = 0
    /\ \E full \in BOOLEAN :
        warmup' = [warmup EXCEPT !.phase = 1, !.full = full, !.pending = Phase1Tasks]
    /\ UNCHANGED <<cmd, pc, radarr, movie_history, sonarr, episode_history, op,
                   movies_with_status, movies_to_remove, series_with_status,
                   items_to_remove, episodes_to_remove, file_check, episode_check,
                   status_check, watch_index, tag_check, cache_check, index_check,
                   fetch_check,
                   removal,
                   season_delete,
                   history_fetch>>

\* a worker thread finishes one submitted task, with a result or an exception
WarmupTaskCompletes ==
    /\ cmd = "cache_init" /\ pc = "fetch"
    /\ \E task \in warmup.pending, ok \in BOOLEAN :
        /\ ok \/ warmup.failures < MaxFailures
        /\ warmup' = CompleteTask(warmup, task, ok)
    /\ UNCHANGED <<cmd, pc, radarr, movie_history, sonarr, episode_history, op,
                   movies_with_status, movies_to_remove, series_with_status,
                   items_to_remove, episodes_to_remove, file_check, episode_check,
                   status_check, watch_index, tag_check, cache_check, index_check,
                   fetch_check,
                   removal,
                   season_delete,
                   history_fetch>>

\* the main thread takes the next completed future from as_completed
WarmupCollect ==
    /\ cmd = "cache_init" /\ pc = "fetch"
    /\ warmup.completed # <<>>
    /\ warmup' = CollectFuture(warmup, Head(warmup.completed))
    /\ UNCHANGED <<cmd, pc, radarr, movie_history, sonarr, episode_history, op,
                   movies_with_status, movies_to_remove, series_with_status,
                   items_to_remove, episodes_to_remove, file_check, episode_check,
                   status_check, watch_index, tag_check, cache_check, index_check,
                   fetch_check,
                   removal,
                   season_delete,
                   history_fetch>>

\* every future of the batch is collected: the executor is left and the next
\* phase submits its tasks, or the warm-up ends
WarmupNextPhase ==
    /\ cmd = "cache_init" /\ pc = "fetch"
    /\ warmup.phase \in 1..4
    /\ warmup.pending = {} /\ warmup.completed = <<>>
    /\ LET next == NextWarmupPhase(warmup.phase, warmup.results, warmup.full)
       IN /\ warmup' = [warmup EXCEPT !.phase = next,
                            !.pending = IF next = 5 THEN {}
                                        ELSE PhaseTasks(next, warmup.results, warmup.full)]
          /\ pc' = IF next = 5 THEN "done" ELSE pc
    /\ UNCHANGED <<cmd, radarr, movie_history, sonarr, episode_history, op,
                   movies_with_status, movies_to_remove, series_with_status,
                   items_to_remove, episodes_to_remove, file_check, episode_check,
                   status_check, watch_index, tag_check, cache_check, index_check,
                   fetch_check,
                   removal,
                   season_delete,
                   history_fetch>>

\* a remove command has computed its candidates and displays them
RemoveDisplay ==
    /\ cmd = "remove" /\ pc = "fetch" /\ removal.stage = "idle"
    /\ \E km \in {<<"movies", "movie">>, <<"series", "series">>, <<"series", "season">>},
          dry_run \in BOOLEAN, force \in BOOLEAN, n \in 0..MaxCandidates :
        LET candidates == [i \in 1..n |-> [id |-> i]]
            stage == StageAfterDisplay(candidates, dry_run, force)
        IN /\ removal' = [removal EXCEPT !.kind = km[1], !.mode = km[2],
                              !.dry_run = dry_run, !.force = force,
                              !.candidates = candidates, !.listed = candidates,
                              !.stage = stage]
           /\ pc' = IF stage = "returned" THEN "done" ELSE pc
    /\ UNCHANGED <<cmd, radarr, movie_history, sonarr, episode_history, op,
                   movies_with_status, movies_to_remove, series_with_status,
                   items_to_remove, episodes_to_remove, file_check, episode_check,
                   status_check, watch_index, tag_check, cache_check, index_check,
                   fetch_check, warmup,
                   season_delete,
                   history_fetch>>

\* the user answers one confirmation prompt
RemoveConfirm ==
    /\ cmd = "remove" /\ pc = "fetch" /\ removal.stage = "confirm"
    /\ \E answer \in BOOLEAN :
        LET stage == IF ~answer THEN "returned"
                     ELSE IF removal.prompts + 1 < PromptsOf(removal.kind) THEN "confirm"
                     ELSE "delete"
        IN /\ removal' = [removal EXCEPT !.prompts = @ + 1, !.stage = stage]
           /\ pc' = IF stage = "returned" THEN "done" ELSE pc
    /\ UNCHANGED <<cmd, radarr, movie_history, sonarr, episode_history, op,
                   movies_with_status, movies_to_remove, series_with_status,
                   items_to_remove, episodes_to_remove, file_check, episode_check,
                   status_check, watch_index, tag_check, cache_check, index_check,
                   fetch_check, warmup,
                   season_delete,
                   history_fetch>>

\* the deletion loop handles its next candidate
RemoveDeleteNext ==
    /\ cmd = "remove" /\ pc = "fetch" /\ removal.stage = "delete"
    /\ removal.index <= Len(removal.candidates)
    /\ \E outcome \in {"ok", "fail", "raise"} : removal' = DeleteStep(removal, outcome)
    /\ UNCHANGED <<cmd, pc, radarr, movie_history, sonarr, episode_history, op,
                   movies_with_status, movies_to_remove, series_with_status,
                   items_to_remove, episodes_to_remove, file_check, episode_check,
                   status_check, watch_index, tag_check, cache_check, index_check,
                   fetch_check, warmup,
                   season_delete,
                   history_fetch>>

\* the deletion loop is through: the summary is logged
RemoveFinish ==
    /\ cmd = "remove" /\ pc = "fetch" /\ removal.stage = "delete"
    /\ removal.index > Len(removal.candidates)
    /\ removal' = [removal EXCEPT !.stage = "finished"]
    /\ pc' = "done"
    /\ UNCHANGED <<cmd, radarr, movie_history, sonarr, episode_history, op,
                   movies_with_status, movies_to_remove, series_with_status,
                   items_to_remove, episodes_to_remove, file_check, episode_check,
                   status_check, watch_index, tag_check, cache_check, index_check,
                   fetch_check, warmup,
                   season_delete,
                   history_fetch>>

\* delete_season_files fetches the episode files and selects those of the season;
\* with nothing selected it returns True at once
SeasonDeleteSelect ==
    /\ cmd = "delete_season" /\ pc = "fetch" /\ season_delete.stage = "idle"
    /\ \E episode_files \in SUBSET SeasonFilePool, season_number \in 0..2,
          unmonitor \in BOOLEAN :
        LET season_file_ids == SeasonFileIds(episode_files, season_number)
        IN /\ season_delete' =
                [season_delete EXCEPT !.episode_files = episode_files,
                    !.season_number = season_number, !.unmonitor = unmonitor,
                    !.season_file_ids = season_file_ids, !.remaining = season_file_ids,
                    !.stage = IF season_file_ids = {} THEN "returned" ELSE "delete",
                    !.result = (season_file_ids = {})]
           /\ pc' = IF season_file_ids = {} THEN "done" ELSE pc
    /\ UNCHANGED <<cmd, radarr, movie_history, sonarr, episode_history, op,
                   movies_with_status, movies_to_remove, series_with_status,
                   items_to_remove, episodes_to_remove, file_check, episode_check,
                   status_check, watch_index, tag_check, cache_check, index_check,
                   fetch_check, warmup, removal,
                   history_fetch>>

\* the deletion loop takes one more selected file (a set is iterated in any
\* order); delete_episode_file returns True or False and never raises
SeasonDeleteFile ==
    /\ cmd = "delete_season" /\ pc = "fetch" /\ season_delete.stage = "delete"
    /\ \E file_id \in season_delete.remaining, success \in BOOLEAN :
        season_delete' =
            [season_delete EXCEPT !.remaining = @ \ {file_id},
                !.delete_calls = Append(@, file_id),
                !.failed = IF success THEN @ ELSE @ \cup {file_id},
                !.all_success = IF success THEN @ ELSE FALSE]
    /\ UNCHANGED <<cmd, pc, radarr, movie_history, sonarr, episode_history, op,
                   movies_with_status, movies_to_remove, series_with_status,
                   items_to_remove, episodes_to_remove, file_check, episode_check,
                   status_check, watch_index, tag_check, cache_check, index_check,
                   fetch_check, warmup, removal,
                   history_fetch>>

\* after the loop: unmonitor the season when requested and all deletions
\* succeeded, then return all_success
SeasonDeleteReturn ==
    /\ cmd = "delete_season" /\ pc = "fetch" /\ season_delete.stage = "delete"
    /\ season_delete.remaining = {}
    /\ season_delete' =
            [season_delete EXCEPT !.stage = "returned",
                !.unmonitored = ShouldUnmonitor(season_delete.unmonitor,
                                                season_delete.all_success),
                !.result = season_delete.all_success]
    /\ pc' = "done"
    /\ UNCHANGED <<cmd, radarr, movie_history, sonarr, episode_history, op,
                   movies_with_status, movies_to_remove, series_with_status,
                   items_to_remove, episodes_to_remove, file_check, episode_check,
                   status_check, watch_index, tag_check, cache_check, index_check,
                   fetch_check, warmup, removal,
                   history_fetch>>

\* get_watch_history is called
HistoryCall ==
    /\ cmd = "history" /\ pc = "fetch" /\ history_fetch.stage = "idle"
    /\ \E page_size \in 1..MaxPageSize, limit \in {NoInt} \cup 0..MaxLimit,
          total \in 0..MaxRecords :
        history_fetch' = [history_fetch EXCEPT !.stage = "loop", !.page_size = page_size,
                                               !.limit = limit, !.total = total]
    /\ UNCHANGED <<cmd, pc, radarr, movie_history, sonarr, episode_history, op,
                   movies_with_status, movies_to_remove, series_with_status,
                   items_to_remove, episodes_to_remove, file_check, episode_check,
                   status_check, watch_index, tag_check, cache_check, index_check,
                   fetch_check, warmup, removal, season_delete>>

\* one pass through the body of the while loop
HistoryRequest ==
    /\ cmd = "history" /\ pc = "fetch" /\ history_fetch.stage = "loop"
    /\ history_fetch' = HistoryIteration(history_fetch)
    /\ pc' = IF history_fetch'.stage = "returned" THEN "done" ELSE pc
    /\ UNCHANGED <<cmd, radarr, movie_history, sonarr, episode_history, op,
                   movies_with_status, movies_to_remove, series_with_status,
                   items_to_remove, episodes_to_remove, file_check, episode_check,
                   status_check, watch_index, tag_check, cache_check, index_check,
                   fetch_check, warmup, removal, season_delete>>

\* get_user_tags applied to a list of tag ids
ResolveUserTags ==
    /\ cmd = "check_tags" /\ pc = "fetch"
    /\ \E tag_ids \in TagIdLists :
        tag_check' = [ran |-> TRUE, tag_ids |-> tag_ids, result |-> GetUserTags(tag_ids),
                      lookups |-> GetTagLookups(tag_ids)]
    /\ pc' = "done"
    /\ UNCHANGED <<cmd, radarr, movie_history, sonarr, episode_history, op,
                   movies_with_status, movies_to_remove, series_with_status,
                   items_to_remove, episodes_to_remove, file_check, episode_check,
                   status_check, watch_index, cache_check, index_check,
                   fetch_check,
                   warmup,
                   removal,
                   season_delete,
                   history_fetch>>

\* the series status determination applied to a pair of counts
DetermineSeriesWatchStatus ==
    /\ cmd = "check_status" /\ pc = "fetch"
    /\ \E watched \in 0..MaxCount, total \in 0..MaxCount :
        status_check' = [ran |-> TRUE, watched |-> watched, total |-> total,
                         status |-> SeriesWatchStatus(watched, total)]
    /\ pc' = "done"
    /\ UNCHANGED <<cmd, radarr, movie_history, sonarr, episode_history, op,
                   movies_with_status, movies_to_remove, series_with_status,
                   items_to_remove, episodes_to_remove, file_check, episode_check,
                   watch_index,
                   tag_check, cache_check, index_check,
                   fetch_check,
                   warmup,
                   removal,
                   season_delete,
                   history_fetch>>

\* build_series_metadata_cache applied to an episode history
BuildSeriesMetadataCache ==
    /\ cmd = "check_cache" /\ pc = "fetch"
    /\ \E history \in CacheHistories :
        cache_check' = [ran |-> TRUE, history |-> history,
                        series_cache |-> build_series_metadata_cache(history),
                        lookups |-> SeriesMetadataLookups(history)]
    /\ pc' = "done"
    /\ UNCHANGED <<cmd, radarr, movie_history, sonarr, episode_history, op,
                   movies_with_status, movies_to_remove, series_with_status,
                   items_to_remove, episodes_to_remove, file_check, episode_check,
                   status_check, watch_index, tag_check, index_check,
                   fetch_check,
                   warmup,
                   removal,
                   season_delete,
                   history_fetch>>

\* the watch_lookup loop of get_movies_with_watch_status applied to a movie history
BuildMovieWatchIndex ==
    /\ cmd = "check_index" /\ pc = "fetch"
    /\ \E history \in IndexHistories :
        index_check' = [ran |-> TRUE, history |-> history,
                        raised |-> MovieLookupRaises(history),
                        watch_lookup |-> IF MovieLookupRaises(history) THEN <<>>
                                         ELSE BuildMovieWatchLookup(history, <<>>),
                        lookups |-> MovieMetadataLookups(history)]
    /\ pc' = "done"
    /\ UNCHANGED <<cmd, radarr, movie_history, sonarr, episode_history, op,
                   movies_with_status, movies_to_remove, series_with_status,
                   items_to_remove, episodes_to_remove, file_check, episode_check,
                   status_check, watch_index, tag_check, cache_check,
                   fetch_check,
                   warmup,
                   removal,
                   season_delete,
                   history_fetch>>

Next ==
    \/ TautulliMovieWatched
    \/ GetMoviesReadyForRemoval
    \/ RemoveMovies
    \/ FilterByDaysWatched
    \/ TautulliEpisodeWatched
    \/ ListSeries
    \/ GetSeriesReadyForRemoval
    \/ CheckFileEpisodes
    \/ CheckSeriesEpisodes
    \/ DetermineSeriesWatchStatus
    \/ ResolveUserTags
    \/ BuildSeriesMetadataCache
    \/ BuildMovieWatchIndex
    \/ EvaluateEpisodesWithFailures
    \/ WarmupSubmit
    \/ WarmupTaskCompletes
    \/ WarmupCollect
    \/ WarmupNextPhase
    \/ RemoveDisplay
    \/ RemoveConfirm
    \/ RemoveDeleteNext
    \/ RemoveFinish
    \/ SeasonDeleteSelect
    \/ SeasonDeleteFile
    \/ SeasonDeleteReturn
    \/ HistoryCall
    \/ HistoryRequest

Spec == Init /\ [][Next]_vars

\* ------------------------------------------------------------------ properties (movies)
\* what the raw data says, independently of the annotation code
RequesterOfTags(tags) == IF tags # <<>> THEN GetUserTags(tags) ELSE None

RawMovieOf(movie_id) == CHOOSE m \in Range(radarr) : m.id = movie_id

\* users with a completed, timestamped watch of the movie in the raw history
RawMovieWatchers(imdb_id) ==
    {r.user : r \in {h \in Range(movie_history) :
                        /\ get_imdb_id_from_rating_key(h.rating_key) = imdb_id
                        /\ TruthyInt(h.watched_at)}}

\* timestamps at which the given user watched the movie
RawMovieWatchTimes(imdb_id, user) ==
    {h.watched_at : h \in {r \in Range(movie_history) :
                        /\ get_imdb_id_from_rating_key(r.rating_key) = imdb_id
                        /\ r.user = user
                        /\ TruthyInt(r.watched_at)}}

MovieOpDone == pc = "done" /\ cmd = "movies"

\* C8: a tagged movie is unwatched when nobody finished it, watched when its
\* requester finished it, watched_by_other when only other users finished it
C8_MovieStatus ==
    MovieOpDone =>
        \A movie \in Range(movies_with_status) :
            TruthyStr(movie.user) =>
                LET watchers == RawMovieWatchers(movie.imdb_id)
                IN /\ (watchers = {}) <=> (movie.watch_status = "unwatched")
                   /\ (movie.user \in watchers) <=> (movie.watch_status = "watched")
                   /\ (watchers # {} /\ movie.user \notin watchers)
                          <=> (movie.watch_status = "watched_by_other")

\* a tagged movie somebody else finished and its requester did not, next to one
\* the requester finished
C8_Witness ==
    /\ MovieOpDone
    /\ \E movie \in Range(movies_with_status) :
          /\ TruthyStr(movie.user)
          /\ RawMovieWatchers(movie.imdb_id) # {}
          /\ movie.user \notin RawMovieWatchers(movie.imdb_id)
          /\ movie.watch_status = "watched_by_other"
    /\ \E movie \in Range(movies_with_status) :
          /\ TruthyStr(movie.user)
          /\ movie.user \in RawMovieWatchers(movie.imdb_id)
          /\ movie.watch_status = "watched"

\* C9 as stated: a movie without requester that somebody finished is
\* watched_by_other
C9_UntaggedWatchedByOther ==
    MovieOpDone =>
        \A movie \in Range(movies_with_status) :
            (~TruthyStr(movie.user) /\ RawMovieWatchers(movie.imdb_id) # {})
                => movie.watch_status = "watched_by_other"

\* C9 amended: a movie without requester that somebody finished is given the
\* status watched
C9_UntaggedWatched ==
    MovieOpDone =>
        \A movie \in Range(movies_with_status) :
            (~TruthyStr(movie.user) /\ RawMovieWatchers(movie.imdb_id) # {})
                => movie.watch_status = "watched"

\* an annotated movie without requester that has a watcher
C9_Witness ==
    /\ MovieOpDone
    /\ \E movie \in Range(movies_with_status) :
          /\ ~TruthyStr(movie.user)
          /\ RequesterOfTags(RawMovieOf(movie.id).tags) = None
          /\ RawMovieWatchers(movie.imdb_id) # {}

\* days since the requester's own most recent watch of the movie
RequesterDaysSinceWatched(movie) ==
    DaysSince(MaxOf(RawMovieWatchTimes(movie.imdb_id, movie.user), 0))

InMoviesToRemove(movie_id) == \E i \in 1..Len(movies_to_remove) : movies_to_remove[i].id = movie_id

\* C3 as stated: a movie is a candidate of get_movies_ready_for_removal exactly
\* when its requester watched it and the requester's own most recent watch is
\* at least days_watched days old, whatever other users watched
C3_MovieRuleRequesterTime ==
    (MovieOpDone /\ op.name = "get_movies_ready_for_removal") =>
        \A movie \in Range(movies_with_status) :
            InMoviesToRemove(movie.id)
                <=> /\ movie.watch_status = "watched"
                    /\ RequesterDaysSinceWatched(movie) >= op.days_watched

\* candidate lists of the movie paths never hold a movie without requester
UntaggedMovieCandidate ==
    \E i \in 1..Len(movies_to_remove) :
        RequesterOfTags(RawMovieOf(movies_to_remove[i].id).tags) = None

UntaggedSeriesCandidate ==
    \/ \E i \in 1..Len(items_to_remove) :
          \E s \in Range(sonarr) :
              s.id = items_to_remove[i].id /\ RequesterOfTags(s.tags) = None
    \/ \E i \in 1..Len(episodes_to_remove) :
          \E s \in Range(sonarr) :
              s.id = episodes_to_remove[i].series_id /\ RequesterOfTags(s.tags) = None

RemovalPathDone ==
    /\ pc = "done"
    /\ op.name \in {"get_movies_ready_for_removal", "remove_movies",
                    "get_series_ready_for_removal"}

SeriesOpDone == pc = "done" /\ cmd = "series"

SeriesRemovalDone(mode) ==
    SeriesOpDone /\ op.name = "get_series_ready_for_removal" /\ op.mode = mode

StatusByTable(watched_count, total_count) ==
    CASE total_count = 0 -> "no_episodes"
      [] total_count # 0 /\ watched_count = 0 -> "unwatched"
      [] total_count # 0 /\ watched_count # 0 /\ watched_count = total_count -> "fully_watched"
      [] OTHER -> "partially_watched"

\* C7: the status of a series is no_episodes when the total is 0 whatever the
\* watched count, else unwatched when the watched count is 0, else
\* fully_watched when the counts are equal, else partially_watched
C7_SeriesStatus ==
    /\ (pc = "done" /\ cmd = "check_status") =>
          status_check.status = StatusByTable(status_check.watched, status_check.total)
    /\ SeriesOpDone =>
          \A series \in Range(series_with_status) :
              series.watch_status =
                  StatusByTable(series.watched_episodes, series.total_episodes)

\* the determination ran on a zero total with a positive watched count
C7_Witness ==
    /\ pc = "done" /\ cmd = "check_status"
    /\ status_check.total = 0 /\ status_check.watched > 0
    /\ status_check.status = "no_episodes"

InItemsToRemove(series_id) == \E i \in 1..Len(items_to_remove) : items_to_remove[i].id = series_id

\* C10: in the series mode a tagged series is a candidate exactly when it is
\* fully watched and its days_since_watched is at least days_watched
C10_SeriesRule ==
    SeriesRemovalDone("series") =>
        /\ \A s \in Range(sonarr) :
              RequesterOfTags(s.tags) # None
                  => \E series \in Range(series_with_status) : series.id = s.id
        /\ \A series \in Range(series_with_status) :
              InItemsToRemove(series.id)
                  <=> /\ series.watch_status = "fully_watched"
                      /\ series.days_since_watched # NoInt
                      /\ series.days_since_watched >= op.days_watched
        /\ \A i \in 1..Len(items_to_remove) :
              \E series \in Range(series_with_status) : series.id = items_to_remove[i].id

\* a fully watched series old enough is listed while a partially watched one
\* of the same age or older is not
C10_Witness ==
    /\ SeriesRemovalDone("series")
    /\ \E series \in Range(series_with_status) :
          series.watch_status = "fully_watched" /\ InItemsToRemove(series.id)
    /\ \E series \in Range(series_with_status) :
          /\ series.watch_status = "partially_watched"
          /\ series.days_since_watched >= op.days_watched
          /\ ~InItemsToRemove(series.id)

\* ------------------------------------------------------------------ properties (age test)
\* a movies remove run whose options drop no movie for its size or rank
RemoveMoviesUnrestricted ==
    op.name = "remove_movies"
        => op.options.min_filesize_bytes = NoInt /\ op.options.limit = NoInt

FileCheckDays(i) ==
    GetEpisodeWatchInfo(file_check.series,
        make_episode_key(file_check.episodes_in_file[i].seasonNumber,
                         file_check.episodes_in_file[i].episodeNumber),
        file_check.user).days_since_watched

\* C4: the age test is an inclusive lower bound: an item whose
\* days_since_watched equals days_watched passes, one a day short does not
C4_InclusiveThreshold ==
    /\ (MovieOpDone /\ op.days_watched # NoInt) =>
          /\ \A i \in 1..Len(movies_to_remove) :
                movies_to_remove[i].days_since_watched >= op.days_watched
          /\ \A movie \in Range(movies_with_status) :
                (/\ movie.days_since_watched = op.days_watched
                 /\ (movie.watch_status = "watched" \/ op.name = "filter_by_days_watched")
                 /\ RemoveMoviesUnrestricted)
                    => InMoviesToRemove(movie.id)
    /\ (SeriesOpDone /\ op.name = "get_series_ready_for_removal") =>
          /\ \A i \in 1..Len(items_to_remove) :
                items_to_remove[i].days_since_watched >= op.days_watched
          /\ \A i \in 1..Len(episodes_to_remove) :
                episodes_to_remove[i].days_since_watched >= op.days_watched
          /\ \A series \in Range(series_with_status) :
                (/\ op.mode = "series"
                 /\ series.days_since_watched = op.days_watched
                 /\ series.watch_status = "fully_watched")
                    => InItemsToRemove(series.id)
    /\ (pc = "done" /\ cmd = "check_file") =>
          /\ (\E i \in 1..Len(file_check.episodes_in_file) :
                 FileCheckDays(i) = file_check.days_watched - 1)
                => ~file_check.all_watched
          /\ (\A i \in 1..Len(file_check.episodes_in_file) :
                 FileCheckDays(i) = file_check.days_watched)
                => file_check.all_watched

\* a movie watched exactly days_watched days ago is listed and one watched a
\* day less ago is not
C4_Witness ==
    /\ MovieOpDone /\ op.name = "get_movies_ready_for_removal"
    /\ \E movie \in Range(movies_with_status) :
          /\ movie.watch_status = "watched"
          /\ movie.days_since_watched = op.days_watched
          /\ InMoviesToRemove(movie.id)
    /\ \E movie \in Range(movies_with_status) :
          /\ movie.watch_status = "watched"
          /\ movie.days_since_watched = op.days_watched - 1
          /\ ~InMoviesToRemove(movie.id)

\* ------------------------------------------------------------------ properties (seasons, episodes)
\* what the raw data says about the episodes of a series
RawEpisodeWatchTimes(tvdb_id, season_num, episode_num, users) ==
    {h.watched_at : h \in {r \in Range(episode_history) :
                        /\ FirstTvdb(SeriesGuids(r.grandparent_rating_key)) = tvdb_id
                        /\ r.season_num = season_num
                        /\ r.episode_num = episode_num
                        /\ r.user \in users
                        /\ TruthyInt(r.watched_at)}}

AllUsers == {r.user : r \in Range(episode_history)}

SeasonEpisodes(series_id, season_num) ==
    {e \in Range(get_episodes(series_id)) : e.seasonNumber = season_num}

SeasonWatchedByRequester(s, season_num) ==
    \A e \in SeasonEpisodes(s.id, season_num) :
        RawEpisodeWatchTimes(s.tvdbId, season_num, e.episodeNumber,
                             {RequesterOfTags(s.tags)}) # {}

\* days since the most recent watch of any episode of the season
SeasonDaysSinceWatched(s, season_num) ==
    DaysSince(MaxOf(UNION {RawEpisodeWatchTimes(s.tvdbId, season_num, e.episodeNumber,
                                                AllUsers) :
                              e \in SeasonEpisodes(s.id, season_num)}, 0))

\* C6 as stated: in the season mode a season of a tagged series is a candidate
\* exactly when its requester watched every episode of the season and the
\* season's days_since_watched is at least days_watched
C6_SeasonRule ==
    SeriesRemovalDone("season") =>
        \A s \in Range(sonarr) :
            RequesterOfTags(s.tags) # None =>
                \A season_num \in {e.seasonNumber : e \in Range(get_episodes(s.id))} :
                    (\E i \in 1..Len(items_to_remove) :
                        /\ items_to_remove[i].id = s.id
                        /\ items_to_remove[i].season_number = season_num)
                    <=> /\ SeasonWatchedByRequester(s, season_num)
                        /\ SeasonDaysSinceWatched(s, season_num) >= op.days_watched

\* the episodes a file of a series names
BundledEpisodes(series_id, file_id) ==
    {e \in Range(get_episodes(series_id)) :
        \E f \in Range(get_episode_files(series_id)) :
            f.id = file_id /\ \E j \in 1..Len(f.episodes) : f.episodes[j].id = e.id}

\* the requester's most recent watch of the episode is at least days old
RequesterWatchedLongAgo(s, e, days) ==
    LET times == RawEpisodeWatchTimes(s.tvdbId, e.seasonNumber, e.episodeNumber,
                                      {RequesterOfTags(s.tags)})
    IN RequesterOfTags(s.tags) # None /\ times # {} /\ DaysSince(MaxOf(times, 0)) >= days

FileQualifies(s, file_id, days) ==
    /\ BundledEpisodes(s.id, file_id) # {}
    /\ \A e \in BundledEpisodes(s.id, file_id) : RequesterWatchedLongAgo(s, e, days)

\* days since the requester watched the episode, as the series dict handed to
\* the episode loop records it
EpisodeCheckDays(e) ==
    GetEpisodeWatchInfo(episode_check.series,
        make_episode_key(e.seasonNumber, e.episodeNumber),
        episode_check.series.user).days_since_watched

C5_OneCandidatePerFile ==
    /\ (pc = "done" /\ cmd = "check_episodes") =>
          \A i, j \in 1..Len(episode_check.candidates) :
              episode_check.candidates[i].episode_file_id
                    = episode_check.candidates[j].episode_file_id
                  => i = j
    /\ SeriesRemovalDone("episode") =>
        /\ \A i, j \in 1..Len(episodes_to_remove) :
              (/\ episodes_to_remove[i].series_id = episodes_to_remove[j].series_id
               /\ episodes_to_remove[i].episode_file_id = episodes_to_remove[j].episode_file_id)
                  => i = j
        /\ \A s \in Range(sonarr) :
              \A f \in Range(get_episode_files(s.id)) :
                  FileQualifies(s, f.id, op.days_watched)
                      => Cardinality({i \in 1..Len(episodes_to_remove) :
                              /\ episodes_to_remove[i].series_id = s.id
                              /\ episodes_to_remove[i].episode_file_id = f.id}) = 1

\* ------------------------------------------------------------------ properties (watch index)
\* C11: in the index an annotation built, the timestamp of every (item,
\* watcher) pair is the largest watched_at among the events of that pair, and
\* every pair with an indexable event is present
C11_MaxTimestampRetained ==
    /\ MovieOpDone =>
          /\ \A imdb_id \in DOMAIN watch_index :
                /\ DOMAIN watch_index[imdb_id].watchers = RawMovieWatchers(imdb_id)
                /\ \A u \in DOMAIN watch_index[imdb_id].watchers :
                      watch_index[imdb_id].watchers[u]
                          = MaxOf(RawMovieWatchTimes(imdb_id, u), 0)
          /\ \A r \in Range(movie_history) :
                TruthyStr(get_imdb_id_from_rating_key(r.rating_key))
                    => get_imdb_id_from_rating_key(r.rating_key) \in DOMAIN watch_index
    /\ SeriesOpDone =>
          \A tvdb_id \in DOMAIN watch_index :
              \A k \in DOMAIN watch_index[tvdb_id] :
                  \A u \in DOMAIN watch_index[tvdb_id][k] :
                      LET e == watch_index[tvdb_id][k][u]
                      IN /\ k = make_episode_key(e.season_num, e.episode_num)
                         /\ e.watched_at =
                               MaxOf(RawEpisodeWatchTimes(tvdb_id, e.season_num,
                                                          e.episode_num, {u}), 0)

\* the same watcher finished the same movie twice, the later watch comes first
\* in the history, and the index holds the later timestamp
C11_Witness ==
    /\ MovieOpDone
    /\ Len(movie_history) >= 2
    /\ movie_history[1].rating_key = movie_history[2].rating_key
    /\ movie_history[1].user = movie_history[2].user
    /\ movie_history[1].watched_at > movie_history[2].watched_at
    /\ LET imdb_id == get_imdb_id_from_rating_key(movie_history[1].rating_key)
       IN /\ imdb_id \in DOMAIN watch_index
          /\ watch_index[imdb_id].watchers[movie_history[1].user]
                = movie_history[1].watched_at

\* the list with the events at positions i and i + 1 exchanged
SwapAt(history, i) ==
    [j \in 1..Len(history) |->
        IF j = i THEN history[i + 1] ELSE IF j = i + 1 THEN history[i] ELSE history[j]]

Reversed(history) == [j \in 1..Len(history) |-> history[Len(history) + 1 - j]]

IndexOfMovies(history) == BuildMovieWatchLookup(history, <<>>)

IndexOfEpisodes(history) ==
    BuildEpisodeWatchLookup(history, build_series_metadata_cache(history), <<>>)

\* C12: the index is a function of the event list alone and does not depend on
\* the order of the events: building it again, from the list with two
\* neighbours exchanged, or from the reversed list gives the same index
C12_IndexOrderIndependent ==
    /\ MovieOpDone =>
          /\ IndexOfMovies(movie_history) = watch_index
          /\ IndexOfMovies(Reversed(movie_history)) = watch_index
          /\ \A i \in 1..(Len(movie_history) - 1) :
                IndexOfMovies(SwapAt(movie_history, i)) = watch_index
    /\ SeriesOpDone =>
          /\ IndexOfEpisodes(episode_history) = watch_index
          /\ IndexOfEpisodes(Reversed(episode_history)) = watch_index
          /\ \A i \in 1..(Len(episode_history) - 1) :
                IndexOfEpisodes(SwapAt(episode_history, i)) = watch_index

\* an episode index built from a history in which one watcher finished the
\* same episode twice at different times
C12_Witness ==
    /\ SeriesOpDone
    /\ watch_index # <<>>
    /\ \E i, j \in 1..Len(episode_history) :
          /\ i < j
          /\ episode_history[i].grandparent_rating_key
                = episode_history[j].grandparent_rating_key
          /\ episode_history[i].season_num = episode_history[j].season_num
          /\ episode_history[i].episode_num = episode_history[j].episode_num
          /\ episode_history[i].user = episode_history[j].user
          /\ episode_history[i].watched_at # episode_history[j].watched_at
          /\ TruthyInt(episode_history[i].season_num)

\* every timestamp the episode index holds for a series
IndexedSeriesTimes(tvdb_id) ==
    IF tvdb_id \notin DOMAIN watch_index THEN {}
    ELSE UNION {{watch_index[tvdb_id][k][u].watched_at : u \in DOMAIN watch_index[tvdb_id][k]} :
                   k \in DOMAIN watch_index[tvdb_id]}

\* C13: the most recent watch and the days since watched of an item come from
\* the largest timestamp over all its watchers, the requester or not
C13_MostRecentOverAllWatchers ==
    /\ MovieOpDone =>
          \A movie \in Range(movies_with_status) :
              LET times == UNION {RawMovieWatchTimes(movie.imdb_id, u) :
                                     u \in RawMovieWatchers(movie.imdb_id)}
              IN IF times = {}
                 THEN movie.watched_at = NoInt /\ movie.days_since_watched = NoInt
                 ELSE /\ movie.watched_at = MaxOf(times, 0)
                      /\ movie.days_since_watched = DaysSince(MaxOf(times, 0))
                      /\ watch_index[movie.imdb_id].most_recent_watch = MaxOf(times, 0)
    /\ SeriesOpDone =>
          \A series \in Range(series_with_status) :
              LET times == IndexedSeriesTimes(series.tvdb_id)
              IN IF times = {}
                 THEN series.most_recent_watch = NoInt /\ series.days_since_watched = NoInt
                 ELSE /\ series.most_recent_watch = MaxOf(times, 0)
                      /\ series.days_since_watched = DaysSince(MaxOf(times, 0))

\* a tagged series whose most recent watch is by a user other than its
\* requester, later than every watch of the requester
C13_Witness ==
    /\ SeriesOpDone
    /\ \E series \in Range(series_with_status) :
          /\ TruthyStr(series.user)
          /\ series.watched_episodes > 0
          /\ series.most_recent_watch # NoInt
          /\ \E k \in DOMAIN watch_index[series.tvdb_id] :
                \E u \in DOMAIN watch_index[series.tvdb_id][k] :
                    /\ u # series.user
                    /\ watch_index[series.tvdb_id][k][u].watched_at = series.most_recent_watch
          /\ \A k \in DOMAIN watch_index[series.tvdb_id] :
                series.user \in DOMAIN watch_index[series.tvdb_id][k]
                    => watch_index[series.tvdb_id][k][series.user].watched_at
                          < series.most_recent_watch

\* ------------------------------------------------------------------ properties (watched count)
\* (season, episode) pairs of the series the user finished, from the raw history
RawWatchedEpisodes(tvdb_id, user) ==
    {<<r.season_num, r.episode_num>> :
        r \in {h \in Range(episode_history) :
                  /\ FirstTvdb(SeriesGuids(h.grandparent_rating_key)) = tvdb_id
                  /\ h.user = user
                  /\ TruthyInt(h.watched_at)}}

\* C14 as stated: watched_episodes counts the episodes the requester finished,
\* leaving season 0 out when no season filter is given and counting the
\* requester's season-0 episodes when the filter is 0
C14_WatchedCount ==
    (SeriesOpDone /\ op.name = "get_series_with_watch_status") =>
        \A series \in Range(series_with_status) :
            LET season_filter == op.options.season_filter
                counted == {e \in RawWatchedEpisodes(series.tvdb_id, series.user) :
                               IF season_filter = NoInt THEN e[1] # 0
                               ELSE e[1] = season_filter}
            IN series.watched_episodes = Cardinality(counted)

\* ------------------------------------------------------------------ properties (tags)
\* the tag lookup at position i answers with a label the pattern matches
TagMatchesAt(tag_ids, i) ==
    /\ tag_ids[i] \notin RaisingTags
    /\ TagPatternMatch(TagLabel(tag_ids[i])) # None

FirstMatchAt(tag_ids, i) ==
    /\ i \in 1..Len(tag_ids)
    /\ TagMatchesAt(tag_ids, i)
    /\ \A j \in 1..(i - 1) : ~TagMatchesAt(tag_ids, j)

TagCheckDone == pc = "done" /\ cmd = "check_tags"

\* C15: the resolver returns the capture of the first tag whose label matches
\* and looks up no tag after it; it returns None for the empty list and when
\* no label matches
C15_FirstMatchingTag ==
    TagCheckDone =>
        /\ \A i \in 1..Len(tag_check.tag_ids) :
              FirstMatchAt(tag_check.tag_ids, i) =>
                  /\ tag_check.result = TagPatternMatch(TagLabel(tag_check.tag_ids[i]))
                  /\ tag_check.lookups = SubSeq(tag_check.tag_ids, 1, i)
        /\ (\A i \in 1..Len(tag_check.tag_ids) : ~TagMatchesAt(tag_check.tag_ids, i))
              => tag_check.result = None

\* two matching tags in the list: the first one is returned and the second is
\* never looked up
C15_Witness ==
    /\ TagCheckDone
    /\ Len(tag_check.tag_ids) = 2
    /\ TagMatchesAt(tag_check.tag_ids, 1) /\ TagMatchesAt(tag_check.tag_ids, 2)
    /\ tag_check.tag_ids[1] # tag_check.tag_ids[2]
    /\ tag_check.result = TagPatternMatch(TagLabel(tag_check.tag_ids[1]))
    /\ tag_check.lookups = <<tag_check.tag_ids[1]>>

\* C16: when the lookup of a tag raises, the resolver goes on with the next tag
\* and does not raise: a later matching tag is still returned, and without
\* one the result is None
C16_TagLookupFailureSkipped ==
    TagCheckDone =>
        \A i \in 1..Len(tag_check.tag_ids) :
            (/\ tag_check.tag_ids[i] \in RaisingTags
             /\ \A j \in 1..(i - 1) : ~TagMatchesAt(tag_check.tag_ids, j))
                => /\ tag_check.result # Raised
                   /\ \A k \in (i + 1)..Len(tag_check.tag_ids) :
                         FirstMatchAt(tag_check.tag_ids, k)
                             => tag_check.result
                                   = TagPatternMatch(TagLabel(tag_check.tag_ids[k]))
                   /\ (\A k \in (i + 1)..Len(tag_check.tag_ids) :
                          ~TagMatchesAt(tag_check.tag_ids, k))
                         => tag_check.result = None

\* the lookup of the first tag raised and the second tag gave the requester
C16_Witness ==
    /\ TagCheckDone
    /\ Len(tag_check.tag_ids) = 2
    /\ tag_check.tag_ids[1] \in RaisingTags
    /\ TagMatchesAt(tag_check.tag_ids, 2)
    /\ tag_check.result = TagPatternMatch(TagLabel(tag_check.tag_ids[2]))
    /\ tag_check.lookups = tag_check.tag_ids


\* ------------------------------------------------------------------ properties (series id cache)
CacheCheckDone == cmd = "check_cache" /\ pc = "done" /\ cache_check.ran

\* records of the handed history that carry the series key
RecordsWithSeriesKey(k) ==
    {i \in 1..Len(cache_check.history) : cache_check.history[i].grandparent_rating_key = k}

LookupsOf(k) == IF k \in DOMAIN cache_check.lookups THEN cache_check.lookups[k] ELSE 0

\* C17: while the series id cache is built, every series key carried by at least
\* one record of the history is looked up exactly once, however many records
\* carry it, and no other key is looked up
C17_OneLookupPerSeriesKey ==
    CacheCheckDone =>
        /\ \A k \in CacheSeriesKeys \ {None} :
              LookupsOf(k) = IF RecordsWithSeriesKey(k) # {} THEN 1 ELSE 0
        /\ DOMAIN cache_check.lookups \subseteq CacheSeriesKeys \ {None}

C17_Witness ==
    /\ CacheCheckDone
    /\ Cardinality(RecordsWithSeriesKey("g1")) >= 2
    /\ RecordsWithSeriesKey("g2") # {}
    /\ LookupsOf("g1") = 1

\* C18: a series key whose metadata lookup raises is skipped; the cache still
\* maps every other key of the history whose metadata holds a tvdb guid to that id
C18_CachePartialFailure ==
    CacheCheckDone =>
        \A k \in CacheSeriesKeys \ ({None} \cup RaisingSeriesKeys) :
            (RecordsWithSeriesKey(k) # {} /\ \E j \in 1..Len(SeriesGuids(k)) :
                                              TvdbPatternMatch(SeriesGuids(k)[j]) # None)
                => /\ k \in DOMAIN cache_check.series_cache
                   /\ cache_check.series_cache[k] = FirstTvdb(SeriesGuids(k))

\* one failure among three distinct keys leaves the other two present
C18_Witness ==
    /\ CacheCheckDone
    /\ \A k \in {"g1", "g2", "g3"} : RecordsWithSeriesKey(k) # {}
    /\ DOMAIN cache_check.series_cache = {"g1", "g2"}

\* ------------------------------------------------------------------ properties (movie index build)
IndexCheckDone == cmd = "check_index" /\ pc = "done" /\ index_check.ran

\* calls of the metadata service made for the rating key
MovieLookupsOf(k) ==
    Cardinality({i \in 1..Len(index_check.lookups) : index_check.lookups[i] = k})

RecordsWithRatingKey(k) ==
    {i \in 1..Len(index_check.history) : index_check.history[i].rating_key = k}

\* the records of the handed history whose metadata lookup does not raise
RECURSIVE WithoutRaisingRecords(_)
WithoutRaisingRecords(history) ==
    IF history = <<>> THEN <<>>
    ELSE IF Head(history).rating_key \in RaisingMovieKeys
         THEN WithoutRaisingRecords(Tail(history))
         ELSE <<Head(history)>> \o WithoutRaisingRecords(Tail(history))

\* C19: when the movie watch index is built and no lookup fails, the metadata
\* service is queried exactly once per distinct rating key of the history
C19_OneLookupPerRatingKey ==
    (IndexCheckDone /\ ~index_check.raised) =>
        \A k \in IndexRatingKeys \ {None} :
            MovieLookupsOf(k) = IF RecordsWithRatingKey(k) # {} THEN 1 ELSE 0

\* C20: a failing metadata lookup skips its record only: the build completes
\* without raising and holds the entries derived from the other records
C20_LookupFailureSkipsRecord ==
    (IndexCheckDone /\ \E i \in 1..Len(index_check.history) :
                          index_check.history[i].rating_key \notin RaisingMovieKeys) =>
        /\ ~index_check.raised
        /\ index_check.watch_lookup =
              BuildMovieWatchLookup(WithoutRaisingRecords(index_check.history), <<>>)

\* ------------------------------------------------------------------ properties (incomplete events)
\* a movie record with a resolved imdb id, a watcher and a timestamp
CompleteMovieRecord(r) ==
    /\ TruthyStr(r.rating_key)
    /\ \E j \in 1..Len(MovieGuids(r.rating_key)) :
          ImdbPatternMatch(MovieGuids(r.rating_key)[j]) # None
    /\ TruthyStr(r.user)
    /\ TruthyInt(r.watched_at)

RECURSIVE CompleteMovieRecords(_)
CompleteMovieRecords(history) ==
    IF history = <<>> THEN <<>>
    ELSE IF CompleteMovieRecord(Head(history))
         THEN <<Head(history)>> \o CompleteMovieRecords(Tail(history))
         ELSE CompleteMovieRecords(Tail(history))

\* C21: a watch event without a resolved id, a watcher or a timestamp adds
\* nothing to the index: the movie index built from a history is the index
\* built from its complete records alone
C21_IncompleteEventsDropped ==
    (IndexCheckDone /\ ~index_check.raised) =>
        index_check.watch_lookup =
            BuildMovieWatchLookup(CompleteMovieRecords(index_check.history), <<>>)

\* ------------------------------------------------------------------ properties (fetch failures)
FetchCheckDone == cmd = "check_fetch" /\ pc = "done" /\ fetch_check.ran

RECURSIVE CandidatesOfHealthySeries(_, _, _)
\* the candidates of the series none of whose requests failed, in list order
CandidatesOfHealthySeries(series_list, days_watched, failed) ==
    IF series_list = <<>> THEN <<>>
    ELSE (IF Head(series_list).id \in failed THEN <<>>
          ELSE EpisodeCandidatesOf(Head(series_list), days_watched))
         \o CandidatesOfHealthySeries(Tail(series_list), days_watched, failed)

OkTasks(p) == {task \in DOMAIN warmup.outcome[p] : warmup.outcome[p][task] = "ok"}

CollectedTasks(p) ==
    IF warmup.phase = p THEN DOMAIN warmup.outcome[p] \ Range(warmup.completed)
    ELSE DOMAIN warmup.outcome[p]

\* C23: an exception of one prefetch task never ends the warm-up and never
\* drops a sibling: while a phase is open every submitted task is waiting or
\* has completed, and at the end every submitted task of every phase has
\* completed and every result is recorded
C23_NoFailFast ==
    cmd = "cache_init" =>
        /\ warmup.phase \in 0..5
        /\ warmup.phase \in 1..4 =>
              warmup.pending \cup DOMAIN warmup.outcome[warmup.phase]
                  = PhaseTasks(warmup.phase, warmup.results, warmup.full)
        /\ warmup.phase = 5 =>
              /\ \A p \in 1..4 :
                    DOMAIN warmup.outcome[p] = PhaseTasks(p, warmup.results, warmup.full)
              /\ DOMAIN warmup.results = OkTasks(1)
              /\ warmup.cached_tags = Cardinality(OkTasks(2))
              /\ warmup.cached_metadata = Cardinality(OkTasks(3))
              /\ warmup.cached_episodes = Cardinality(OkTasks(4))

\* a finished warm-up in which a tag request raised, a sibling tag request
\* was recorded and the metadata phase still ran
C23_Witness ==
    /\ cmd = "cache_init" /\ warmup.phase = 5
    /\ \E task \in DOMAIN warmup.outcome[2] : warmup.outcome[2][task] = "exc"
    /\ warmup.cached_tags >= 1
    /\ warmup.cached_metadata >= 1

\* C24: whatever the completion order, every merged result sits under the
\* key of the task that produced it and no collected result is missing or
\* replaced by another task's
C24_DisjointKeys ==
    cmd = "cache_init" =>
        /\ \A k \in DOMAIN warmup.results :
              /\ k \in Phase1Tasks
              /\ k \in OkTasks(1) \cap CollectedTasks(1)
              /\ warmup.results[k] = WarmupData(k)
        /\ \A task \in OkTasks(1) \cap CollectedTasks(1) : task \in DOMAIN warmup.results
        /\ warmup.phase \in 2..5 => warmup.cached_tags = Cardinality(OkTasks(2) \cap CollectedTasks(2))
        /\ warmup.phase \in 3..5 =>
              warmup.cached_metadata = Cardinality(OkTasks(3) \cap CollectedTasks(3))

\* the history request completed first and the movies request last, all three
\* are merged
C24_Witness ==
    /\ cmd = "cache_init" /\ warmup.phase = 1
    /\ warmup.completed = <<"movies">>
    /\ DOMAIN warmup.results = {"history", "series"}
    /\ warmup.outcome[1] = [task \in Phase1Tasks |-> "ok"]

\* ------------------------------------------------------------------ properties (remove commands)
\* the command calls the delete API for its candidates (movies, whole series)
DeletesByCall == removal.kind = "movies" \/ removal.mode = "series"

\* candidates whose delete call returned False or raised, in list order
RECURSIVE FailedIds(_, _)
FailedIds(candidates, outcomes) ==
    IF candidates = <<>> \/ outcomes = <<>> THEN <<>>
    ELSE (IF Head(outcomes) # "ok" THEN <<Head(candidates).id>> ELSE <<>>)
         \o FailedIds(Tail(candidates), Tail(outcomes))

\* C25: once the deletion loop is through, a delete call was made for every
\* candidate in list order whatever the earlier calls did, exactly the failing
\* ones are logged as failures, and the candidate list is the one displayed
C25_DeletionFailureIsolated ==
    (cmd = "remove" /\ removal.stage = "finished" /\ DeletesByCall) =>
        /\ removal.delete_calls = [i \in 1..Len(removal.candidates) |-> removal.candidates[i].id]
        /\ Len(removal.outcomes) = Len(removal.candidates)
        /\ removal.failure_logs = FailedIds(removal.candidates, removal.outcomes)
        /\ removal.removed_count + Len(removal.failure_logs) = Len(removal.candidates)
        /\ removal.candidates = removal.listed

\* the first delete call raised and the second candidate was still deleted
C25_Witness ==
    /\ cmd = "remove" /\ removal.stage = "finished" /\ DeletesByCall
    /\ removal.outcomes = <<"raise", "ok">>
    /\ removal.delete_calls = <<1, 2>>

\* C28: with --dry-run no delete call is ever made and no confirmation is
\* asked: the command returns once the candidates are displayed
C28_DryRunDeletesNothing ==
    (cmd = "remove" /\ removal.dry_run) =>
        /\ removal.delete_calls = <<>>
        /\ removal.prompts = 0
        /\ removal.stage = "returned"
        /\ removal.removed_count = 0 /\ removal.failed_count = 0

C28_Witness ==
    /\ cmd = "remove" /\ removal.dry_run /\ ~removal.force
    /\ removal.kind = "series"
    /\ Len(removal.listed) = MaxCandidates
    /\ pc = "done"

\* ------------------------------------------------------------------ properties (season deletion)
\* the reported file with that id
SeasonFileOf(file_id) == CHOOSE f \in season_delete.episode_files : f.id = file_id

SeasonsIn(ep_file) == {ep_file.episodes[i].seasonNumber : i \in 1..Len(ep_file.episodes)}

\* C26: every file delete_season_files deletes is a reported file whose
\* episodes all belong to the target season; a file with an episode of
\* another season, or with no episodes, is never deleted
C26_OnlyWholeSeasonFiles ==
    cmd = "delete_season" =>
        \A i \in 1..Len(season_delete.delete_calls) :
            /\ \E f \in season_delete.episode_files : f.id = season_delete.delete_calls[i]
            /\ SeasonsIn(SeasonFileOf(season_delete.delete_calls[i]))
                  = {season_delete.season_number}

\* season 1 of a series that also has a file spanning seasons 1 and 2 and a
\* file without episodes: both season-1 files were deleted
C26_Witness ==
    /\ cmd = "delete_season" /\ season_delete.stage = "returned"
    /\ season_delete.season_number = 1
    /\ {11, 12} \subseteq {f.id : f \in season_delete.episode_files}
    /\ Range(season_delete.delete_calls) = {10, 14}

\* C27: the season is unmonitored only when every selected file was attempted
\* and none failed; after a failure the remaining files are still attempted,
\* the season stays monitored and the call returns False
C27_UnmonitorAfterAllDeleted ==
    cmd = "delete_season" =>
        /\ season_delete.unmonitored =>
              /\ Range(season_delete.delete_calls) = season_delete.season_file_ids
              /\ season_delete.failed = {}
              /\ season_delete.season_file_ids # {}
        /\ (season_delete.stage = "returned" /\ season_delete.failed # {}) =>
              /\ Range(season_delete.delete_calls) = season_delete.season_file_ids
              /\ Len(season_delete.delete_calls) = Cardinality(season_delete.season_file_ids)
              /\ ~season_delete.unmonitored
              /\ season_delete.result = FALSE
        /\ (season_delete.stage = "returned" /\ season_delete.failed = {}) =>
              season_delete.result = TRUE

\* unmonitoring was requested, the first of two deletions failed, the second
\* was still attempted
C27_Witness ==
    /\ cmd = "delete_season" /\ season_delete.stage = "returned"
    /\ season_delete.unmonitor
    /\ Len(season_delete.delete_calls) = 2
    /\ season_delete.failed = {season_delete.delete_calls[1]}

\* ------------------------------------------------------------------ properties (watch history pages)
\* the request was followed by another one
Followed(i) == i < Len(history_fetch.requests)

\* the paging rules that hold for every limit argument: a request that is
\* followed by another returned a full page, and every start offset is the
\* number of records collected so far
PagingRules ==
    \A i \in 1..Len(history_fetch.requests) :
        LET request == history_fetch.requests[i]
        IN /\ request.start = request.collected
           /\ Followed(i) => /\ request.returned > 0
                             /\ request.returned = request.length

C30_WatchedWithinTotal ==
    (SeriesOpDone /\ op.name = "get_series_with_watch_status") =>
        \A i \in 1..Len(series_with_status) :
            LET s == series_with_status[i]
            IN /\ s.watched_episodes <= s.total_episodes
               /\ 0 <= s.completion_num
               /\ s.completion_num <= 100 * s.completion_den
               /\ (s.completion_num = 100 * s.completion_den)
                     <=> (s.watch_status = "fully_watched")

====
